---- MODULE Spec2Model ----
(***************************************************************************)
(* SubTract pipeline orchestration: the PipelineRunner (step registry,     *)
(* run_subject, run_multiple_subjects in sequential and parallel mode) and *)
(* the skip / caching behaviour of the processing steps.                   *)
(***************************************************************************)
EXTENDS Naturals, Integers, Sequences, FiniteSets, TLC

(***************************************************************************)
(* Bounds of the model.                                                    *)
(***************************************************************************)
MaxSteps == 2
MaxSubjects == 2
MaxSessions == 2
MaxJobs == 2
MaxItems == 2

\* One work item: configured steps, and calls of run_subject.
MaxChain == 2

MaxRuns == 2

\* get_pipeline_summary on its own: configured steps, and entries of the
\* collection.
MaxSummarySteps == 4

MaxSummaryItems == 2

\* Exit codes of an external command run from 0 to MaxExit.
MaxExit == 2

\* A dataset root holds at most MaxDirs directories.
MaxDirs == 3

(***************************************************************************)
(* Input domains.                                                          *)
(***************************************************************************)
\* Step names a configuration may list: a critical step, a non-critical
\* step, the connectome step (registered only when its import succeeded)
\* and a name that has no implementation.
StepPool == {"denoise", "topup", "connectome", "qc_report"}

\* Subject identifiers handed to run_multiple_subjects.
SubjectPool == {"01", "01_ses-A"}

\* Session directory names, in sorted order.
SessionNames == <<"A", "B", "C", "D">>

\* Python's None for an absent session id.
None == "None"

\* Python's None for an absent error_message; a message is a non-empty
\* sequence of text fragments.
NoMessage == <<>>

(***************************************************************************)
(* Generic helpers for Python dicts, modelled as functions.                *)
(***************************************************************************)
EmptyDict == [k \in {} |-> TRUE]

DictSet(d, k, v) == [n \in (DOMAIN d) \cup {k} |-> IF n = k THEN v ELSE d[n]]

DictUpdate(d, e) ==
  [n \in (DOMAIN d) \cup (DOMAIN e) |-> IF n \in DOMAIN e THEN e[n] ELSE d[n]]

SeqsUpTo(S, n) == UNION {[1..k -> S] : k \in 0..n}

Range(s) == {s[i] : i \in DOMAIN s}

Min(a, b) == IF a <= b THEN a ELSE b

(***************************************************************************)
(* PipelineRunner: registry and criticality.                               *)
(***************************************************************************)
\* The names _initialize_processors tests for, in the order of its ifs.
ImplementedSteps ==
  {"copy_data", "denoise", "degibbs", "topup", "eddy", "mdt", "mrtrix_prep",
   "tractography", "sift2", "roi_registration", "connectome"}

\* Variant: every class is instantiated, whatever the configured list names.
InitializeProcessors_All(steps, connAvailable) == ImplementedSteps

\* _initialize_processors: one entry per configured name that has a class;
\* connectome only when ConnectivityMatrix was importable.
InitializeProcessors(steps, connAvailable) ==
  {n \in ImplementedSteps :
      /\ n \in Range(steps)
      /\ (n = "connectome" => connAvailable)}

critical_steps == {"copy_data", "denoise", "eddy"}

\* Variants of _is_critical_step: denoise left out of the set; every step
\* treated as critical.
IsCriticalStep_NoDenoise(step_name) == step_name \in {"copy_data", "eddy"}

IsCriticalStep_Always(step_name) == TRUE

IsCriticalStep(step_name) == step_name \in critical_steps

\* f" session {session_id}" if session_id else ""
SessionStr(session_id) ==
  IF session_id = None THEN "" ELSE " session " \o session_id

\* Variant: every item of a subject is filed under the subject id.
ResultKey_SubjectOnly(subject_id, session_id) == subject_id

\* session_key = f"{subject_id}_ses-{session_id}"; a subject without
\* sessions is keyed by its id alone.
ResultKey(subject_id, session_id) ==
  IF session_id = None THEN subject_id ELSE subject_id \o "_ses-" \o session_id

\* What processor.process can hand back to the runner: a ProcessingResult
\* (successful or failed, with a positive wall time) ...
ReturnedResults ==
  { [success |-> TRUE, execution_time |-> 1, error_message |-> NoMessage],
    [success |-> FALSE, execution_time |-> 1,
     error_message |-> <<"step failed">>] }

\* ... or an exception, whose str(e) is one of these texts.
ExceptionTexts == {"boom"}

\* Variant of the except branch: the wall time is measured and the text of
\* the exception is dropped from the message.
UnexpectedErrorResult_Timed(step_name, subject_id, session_id, text) ==
  [success |-> FALSE,
   execution_time |-> 1,
   error_message |-> <<"Unexpected error in step ", step_name>>]

\* The ProcessingResult run_subject synthesizes in its except branch.
UnexpectedErrorResult(step_name, subject_id, session_id, text) ==
  [success |-> FALSE,
   execution_time |-> 0,
   error_message |->
     <<"Unexpected error in step ", step_name, " for subject ",
       subject_id \o SessionStr(session_id), ": ", text>>]

(***************************************************************************)
(* State.                                                                  *)
(***************************************************************************)
VARIABLES
  steps_to_run,        \* config.steps_to_run
  connectivity_ok,     \* ConnectivityMatrix is not None
  processors,          \* keys of self.processors
  batch_pc,            \* position of run_multiple_subjects
  mode,                \* "sequential" or "parallel"
  n_jobs,              \* size of the worker pool (parallel mode)
  subject_ids,         \* argument of run_multiple_subjects
  next_subject,        \* index of the next subject to hand out
  worker,              \* per worker: position and locals of the subject loop
  results_list,        \* parallel mode: what each wrapper call returned
  all_results,         \* the collection being built / returned
  resolved,            \* the dataset: what get_subject_sessions does per subject
  done_items           \* history: what run_subject returned, per item

\* One work item on its file tree (the second specification, SpecItem).
VARIABLES
  fs,                  \* the paths that exist
  force_overwrite,     \* config.processing.force_overwrite
  is_bids,             \* DataOrganizer.is_bids
  mdt_available,       \* MDTProcessor.mdt_available
  run_no,              \* how many times run_subject was started on the item
  trunc,               \* steps finished when the first run was cut off
  calls,               \* history: one record per process call
  skip_answer          \* history: the last should_skip call

item_vars == <<fs, force_overwrite, is_bids, mdt_available, run_no, trunc, calls,
               skip_answer>>

\* Stand-alone calls: the argument and the answer of get_pipeline_summary.
VARIABLES
  results_arg,         \* the collection handed to get_pipeline_summary
  summary,             \* what it returned
  pool_request,        \* history: how the size of the worker pool was chosen
  dispatch_call,       \* the call made on the command dispatcher
  dispatch_outcome     \* what the call returned or raised

\* The catalogue of subjects (the fifth specification, SpecCatalog).
VARIABLES
  data_dir,            \* the dataset root: config.paths.data_dir on disk
  subject_filter,      \* config.subject_filter
  bids_sessions,       \* config.bids.sessions
  manager,             \* the SubjectManager, once constructed
  catalog_answer       \* what the last call on the manager returned

catalog_vars == <<data_dir, subject_filter, bids_sessions, manager,
                  catalog_answer>>

\* One call of run_step_for_subjects (the sixth specification, SpecStep).
VARIABLES
  step_call            \* its argument, its position and what it has built

call_vars == <<results_arg, summary, pool_request, dispatch_call,
               dispatch_outcome, catalog_vars, step_call>>

vars == <<steps_to_run, connectivity_ok, processors, batch_pc, mode, n_jobs,
          subject_ids, next_subject, worker, results_list, all_results,
          resolved, done_items, item_vars, call_vars>>

Workers == 1..MaxJobs

\* trunc while no run was cut off; skip_answer while should_skip was not
\* called.
NotTruncated == 0 - 1

NoSummary == [total_subjects |-> 0 - 1]

\* dispatch_call and dispatch_outcome while the dispatcher has nothing to
\* run or has not run it.
NoCall == [entry |-> None, kind |-> None]

\* manager before SubjectManager() was called.
NoManager == [kind |-> None, is_bids |-> FALSE, bids_layout |-> FALSE]

\* config.subject_filter and a dataset root while neither is set or there.
NoFilter == [alternatives |-> {}, dollar |-> FALSE]

NoDataset == [exists |-> FALSE, marker |-> FALSE, names |-> {},
              sessions |-> {}]

\* step_call while run_step_for_subjects is not called.
NoStepCall == [step_name |-> None, pc |-> "idle", next |-> 1,
               results |-> EmptyDict, processed |-> <<>>]

\* No catalogue and no call of a single step: the specifications of the
\* runner, the steps and the dispatcher start without them.
NoCatalog ==
  /\ step_call = NoStepCall
  /\ data_dir = NoDataset
  /\ subject_filter = NoFilter
  /\ bids_sessions = {}
  /\ manager = NoManager
  /\ catalog_answer = NoCall

\* pool_request while no pool was asked for, or its size was given by the
\* caller.
NoRequest == [defaulted |-> FALSE, n_threads |-> 0]

NoAnswer == [step |-> None, answer |-> FALSE, expected |-> <<>>,
             present |-> {}, force |-> FALSE]

IdleWorker ==
  [pc |-> "idle", idx |-> 0, sessions |-> <<>>, ses |-> 0, pos |-> 0,
   stopped |-> FALSE, results |-> EmptyDict, session_results |-> EmptyDict,
   log |-> <<>>]

\* The session id of the work item a worker is on (None: no sessions).
CurSession(w) ==
  IF worker[w].ses = 0 THEN None ELSE worker[w].sessions[worker[w].ses]

CurSubject(w) == subject_ids[worker[w].idx]

Init ==
  /\ steps_to_run \in SeqsUpTo(StepPool, MaxSteps)
  \* whether the connectome import worked shows only when it is configured
  /\ connectivity_ok \in
       (IF "connectome" \in Range(steps_to_run) THEN BOOLEAN ELSE {TRUE})
  /\ processors = InitializeProcessors(steps_to_run, connectivity_ok)
  /\ batch_pc = "constructed"
  /\ mode = "sequential"
  /\ n_jobs = 0
  /\ subject_ids = <<>>
  /\ next_subject = 1
  /\ worker = [w \in Workers |-> IdleWorker]
  /\ results_list = EmptyDict
  /\ all_results = EmptyDict
  /\ resolved = EmptyDict
  /\ done_items = EmptyDict
  /\ fs = {}
  /\ force_overwrite = FALSE
  /\ is_bids = TRUE
  /\ mdt_available = TRUE
  /\ run_no = 0
  /\ trunc = NotTruncated
  /\ calls = <<>>
  /\ skip_answer = NoAnswer
  /\ results_arg = EmptyDict
  /\ summary = NoSummary
  /\ pool_request = NoRequest
  /\ dispatch_call = NoCall
  /\ dispatch_outcome = NoCall
  /\ NoCatalog

config_vars == <<steps_to_run, connectivity_ok, processors>>

(***************************************************************************)
(* run_multiple_subjects: entry.                                           *)
(***************************************************************************)
\* joblib's Parallel rejects a pool of size 0 with a ValueError.
ParallelAccepts(n) == n # 0

\* The machine's CPUs: as many as there are worker slots.
cpu_count == MaxJobs

\* The workers joblib starts for n_jobs: a negative n_jobs stands for
\* cpu_count + 1 + n_jobs workers, at least one.
PoolSize(n) ==
  IF n < 0 THEN (IF cpu_count + 1 + n < 1 THEN 1 ELSE cpu_count + 1 + n)
  ELSE n

\* n_jobs = min(config.processing.n_threads, len(subject_ids)) when the
\* caller gave none.
DefaultJobs(n_threads, ids) == Min(n_threads, Len(ids))

\* What subject_manager.get_subject_sessions can do for a subject: return
\* the sorted session ids (none for a flat dataset) or raise.
SessionOutcomes ==
  {[raised |-> TRUE, sessions |-> <<>>]} \cup
  {[raised |-> FALSE, sessions |-> SubSeq(SessionNames, 1, k)] :
      k \in 0..Min(MaxSessions, Len(SessionNames))}

\* Work items a subject contributes: one per session, one for a subject
\* without sessions, none when the lookup fails.
NumItems(o) ==
  IF o.raised THEN 0 ELSE IF Len(o.sessions) = 0 THEN 1 ELSE Len(o.sessions)

RECURSIVE TotalItems(_, _, _)
TotalItems(ids, d, n) ==
  IF n = 0 THEN 0 ELSE TotalItems(ids, d, n - 1) + NumItems(d[ids[n]])

\* The datasets a batch over ids is run against: what the session lookup
\* does for each of its subjects.
Datasets(ids) ==
  {d \in [Range(ids) -> SessionOutcomes] :
     TotalItems(ids, d, Len(ids)) <= MaxItems}

RunMultipleSubjects ==
  /\ batch_pc = "constructed"
  /\ \E ids \in SeqsUpTo(SubjectPool, MaxSubjects),
        parallel \in BOOLEAN,
        joblib \in BOOLEAN,
        n_threads \in (0 - 1)..MaxJobs,
        n_jobs_given \in BOOLEAN,
        n_jobs_arg \in 0..MaxJobs :
       LET jobs == IF n_jobs_given THEN n_jobs_arg
                   ELSE DefaultJobs(n_threads, ids)
       IN
       /\ subject_ids' = ids
       /\ resolved' \in Datasets(ids)
       /\ IF parallel /\ joblib
            THEN /\ mode' = "parallel"
                 /\ n_jobs' = jobs
                 /\ batch_pc' = IF ParallelAccepts(jobs) THEN "running"
                                ELSE "raised"
                 /\ pool_request' =
                      IF n_jobs_given THEN NoRequest
                      ELSE [defaulted |-> TRUE, n_threads |-> n_threads]
            ELSE /\ mode' = "sequential"
                 /\ n_jobs' = 0
                 /\ batch_pc' = "running"
                 /\ pool_request' = NoRequest
  /\ UNCHANGED <<config_vars, next_subject, worker, results_list, all_results,
                 done_items>>
  /\ UNCHANGED <<item_vars, results_arg, summary, dispatch_call,
                 dispatch_outcome, catalog_vars, step_call>>

(***************************************************************************)
(* The subject loop (_run_subjects_sequential) and the per-subject wrapper *)
(* (_run_subjects_parallel.process_subject_wrapper).                       *)
(***************************************************************************)
\* Locals of a fresh run_subject call.
EnterRunSubject(wr, sessions, ses) ==
  [wr EXCEPT !.pc = "loop", !.sessions = sessions, !.ses = ses, !.pos = 1,
             !.stopped = FALSE, !.results = EmptyDict, !.log = <<>>]

\* A worker (the only thread of control in sequential mode) takes the next
\* subject id and asks the catalog for its sessions.  An error is logged and
\* answered with an empty entry for the subject.
StartSubject(w) ==
  /\ batch_pc = "running"
  /\ worker[w].pc = "idle"
  /\ next_subject <= Len(subject_ids)
  /\ IF mode = "sequential" THEN w = 1 ELSE w <= PoolSize(n_jobs)
  \* workers are interchangeable: the free worker with the least number
  \* stands for whichever one the pool picks
  /\ \A v \in Workers : v < w => worker[v].pc # "idle"
  /\ LET i == next_subject
         s == subject_ids[i]
         o == resolved[s]
     IN
     /\ next_subject' = i + 1
     /\ IF o.raised
          THEN /\ worker' = worker
               /\ IF mode = "sequential"
                    THEN /\ all_results' = DictSet(all_results, s, EmptyDict)
                         /\ UNCHANGED results_list
                    ELSE /\ results_list' = DictSet(results_list, i, EmptyDict)
                         /\ UNCHANGED all_results
          ELSE /\ worker' =
                    [worker EXCEPT ![w] =
                       EnterRunSubject(
                         [IdleWorker EXCEPT !.idx = i], o.sessions,
                         IF Len(o.sessions) > 0 THEN 1 ELSE 0)]
               /\ UNCHANGED <<all_results, results_list>>
  /\ UNCHANGED <<config_vars, batch_pc, mode, n_jobs, subject_ids, resolved,
                 done_items>>
  /\ UNCHANGED <<item_vars, call_vars>>

(***************************************************************************)
(* run_subject: one iteration of "for step_name in config.steps_to_run".   *)
(***************************************************************************)
AtStep(w) ==
  /\ batch_pc = "running"
  /\ worker[w].pc = "loop"
  /\ worker[w].pos <= Len(steps_to_run)

\* Variant: the loop walks the configured list from its end.
CurStep_Reversed(w) ==
  steps_to_run[Len(steps_to_run) + 1 - worker[w].pos]

CurStep(w) == steps_to_run[worker[w].pos]

\* Variant: an unregistered name ends the loop (break instead of continue).
SkipUnregistered_Break(w) ==
  /\ AtStep(w)
  /\ CurStep(w) \notin processors
  /\ worker' = [worker EXCEPT ![w].pc = "stopped", ![w].stopped = TRUE]
  /\ UNCHANGED <<config_vars, batch_pc, mode, n_jobs, subject_ids,
                 next_subject, results_list, all_results, resolved, done_items>>
  /\ UNCHANGED <<item_vars, call_vars>>

\* if step_name not in self.processors: warning, continue
SkipUnregistered(w) ==
  /\ AtStep(w)
  /\ CurStep(w) \notin processors
  /\ worker' = [worker EXCEPT ![w].pos = @ + 1]
  /\ UNCHANGED <<config_vars, batch_pc, mode, n_jobs, subject_ids,
                 next_subject, results_list, all_results, resolved, done_items>>
  /\ UNCHANGED <<item_vars, call_vars>>

\* processor.process(subject_id, session_id) is entered.
CallProcess(w) ==
  /\ AtStep(w)
  /\ CurStep(w) \in processors
  /\ worker' = [worker EXCEPT
                  ![w].pc = "in_step",
                  ![w].log = Append(@, [ev |-> "call", pos |-> worker[w].pos,
                                        step |-> CurStep(w), success |-> TRUE])]
  /\ UNCHANGED <<config_vars, batch_pc, mode, n_jobs, subject_ids,
                 next_subject, results_list, all_results, resolved, done_items>>
  /\ UNCHANGED <<item_vars, call_vars>>

\* The rest of the iteration once the result r is known: record it, and
\* break on a failed critical step.
RecordResult(wr, step_name, r, ev) ==
  LET stop == (~r.success) /\ IsCriticalStep(step_name)
  IN [wr EXCEPT
        !.results = DictSet(@, step_name, r),
        !.log = Append(@, [ev |-> ev, pos |-> wr.pos, step |-> step_name,
                           success |-> r.success]),
        !.stopped = stop,
        !.pc = IF stop THEN "stopped" ELSE "loop",
        !.pos = IF stop THEN @ ELSE @ + 1]

\* process returned a ProcessingResult.
ProcessReturns(w) ==
  /\ batch_pc = "running"
  /\ worker[w].pc = "in_step"
  /\ \E r \in ReturnedResults :
       worker' = [worker EXCEPT ![w] = RecordResult(@, CurStep(w), r, "return")]
  /\ UNCHANGED <<config_vars, batch_pc, mode, n_jobs, subject_ids,
                 next_subject, results_list, all_results, resolved, done_items>>
  /\ UNCHANGED <<item_vars, call_vars>>

\* process raised: the except branch builds the failed result.
ProcessRaises(w) ==
  /\ batch_pc = "running"
  /\ worker[w].pc = "in_step"
  /\ \E text \in ExceptionTexts :
       worker' = [worker EXCEPT ![w] =
                    RecordResult(@, CurStep(w),
                      UnexpectedErrorResult(CurStep(w), CurSubject(w),
                                            CurSession(w), text),
                      "raise")]
  /\ UNCHANGED <<config_vars, batch_pc, mode, n_jobs, subject_ids,
                 next_subject, results_list, all_results, resolved, done_items>>
  /\ UNCHANGED <<item_vars, call_vars>>

\* The for loop is over: exhausted, or left by break.
ItemTerminal(w) ==
  \/ worker[w].pc = "stopped"
  \/ worker[w].pc = "loop" /\ worker[w].pos > Len(steps_to_run)

\* run_subject returns its dict; the caller files it under the item's key
\* and goes on with the next session, or is done with the subject.
RunSubjectReturns(w) ==
  /\ batch_pc = "running"
  /\ ItemTerminal(w)
  /\ LET wr == worker[w]
         key == ResultKey(CurSubject(w), CurSession(w))
         sres == DictSet(wr.session_results, key, wr.results)
         more == wr.ses # 0 /\ wr.ses < Len(wr.sessions)
     IN
     /\ done_items' = DictSet(done_items, <<wr.idx, CurSession(w)>>,
                               [results |-> wr.results, log |-> wr.log,
                                stopped |-> wr.stopped,
                                runs |-> IF <<wr.idx, CurSession(w)>>
                                              \in DOMAIN done_items
                                           THEN done_items[<<wr.idx,
                                                  CurSession(w)>>].runs + 1
                                           ELSE 1])
     /\ IF mode = "sequential"
          THEN all_results' = DictSet(all_results, key, wr.results)
          ELSE UNCHANGED all_results
     /\ IF more
          THEN /\ worker' =
                    [worker EXCEPT ![w] =
                       EnterRunSubject(
                         [wr EXCEPT !.session_results =
                                      IF mode = "sequential" THEN @ ELSE sres],
                         wr.sessions, wr.ses + 1)]
               /\ UNCHANGED results_list
          ELSE /\ worker' = [worker EXCEPT ![w] = IdleWorker]
               /\ IF mode = "sequential"
                    THEN UNCHANGED results_list
                    ELSE results_list' = DictSet(results_list, wr.idx, sres)
  /\ UNCHANGED <<config_vars, batch_pc, mode, n_jobs, subject_ids,
                 next_subject, resolved>>
  /\ UNCHANGED <<item_vars, call_vars>>

(***************************************************************************)
(* run_multiple_subjects: exit.                                            *)
(***************************************************************************)
\* Variant: each wrapper result replaces the collection instead of being
\* merged into it.
Flatten_LastOnly(rl, n) == IF n = 0 THEN EmptyDict ELSE rl[n]

RECURSIVE Flatten(_, _)
\* for subject_id, subject_results in results_list: all_results.update(...)
Flatten(rl, n) ==
  IF n = 0 THEN EmptyDict ELSE DictUpdate(Flatten(rl, n - 1), rl[n])

BatchReturns ==
  /\ batch_pc = "running"
  /\ next_subject > Len(subject_ids)
  /\ \A w \in Workers : worker[w].pc = "idle"
  /\ batch_pc' = "returned"
  /\ IF mode = "sequential"
       THEN UNCHANGED all_results
       ELSE all_results' = Flatten(results_list, Len(subject_ids))
  /\ UNCHANGED <<config_vars, mode, n_jobs, subject_ids, next_subject, worker,
                 results_list, resolved, done_items>>
  /\ UNCHANGED <<item_vars, call_vars>>

(***************************************************************************)
(* get_pipeline_summary.  A success rate is kept as the pair it is the     *)
(* quotient of: <<successes, attempts>>; so is the average time.           *)
(***************************************************************************)
\* Variant: a failed result does not mark the subject as failed.
StepTally_IgnoresFailure(acc, step_name, result) ==
  LET counts == IF step_name \in DOMAIN acc.step_counts THEN acc.step_counts
                ELSE DictSet(acc.step_counts, step_name, 0)
      successes == IF step_name \in DOMAIN acc.step_counts
                     THEN acc.step_successes
                     ELSE DictSet(acc.step_successes, step_name, 0)
  IN [step_counts |-> [counts EXCEPT ![step_name] = @ + 1],
      step_successes |-> IF result.success
                           THEN [successes EXCEPT ![step_name] = @ + 1]
                           ELSE successes,
      subject_success |-> acc.subject_success,
      subject_time |-> acc.subject_time + result.execution_time]

\* Variant: only successful results are counted as attempts.
StepTally_CountsSuccesses(acc, step_name, result) ==
  LET counts == IF step_name \in DOMAIN acc.step_counts THEN acc.step_counts
                ELSE DictSet(acc.step_counts, step_name, 0)
      successes == IF step_name \in DOMAIN acc.step_counts
                     THEN acc.step_successes
                     ELSE DictSet(acc.step_successes, step_name, 0)
  IN [step_counts |-> IF result.success
                        THEN [counts EXCEPT ![step_name] = @ + 1]
                        ELSE counts,
      step_successes |-> IF result.success
                           THEN [successes EXCEPT ![step_name] = @ + 1]
                           ELSE successes,
      subject_success |-> acc.subject_success /\ result.success,
      subject_time |-> acc.subject_time + result.execution_time]

\* The body of "for step_name, result in subject_results.items()".
StepTally(acc, step_name, result) ==
  LET counts == IF step_name \in DOMAIN acc.step_counts THEN acc.step_counts
                ELSE DictSet(acc.step_counts, step_name, 0)
      successes == IF step_name \in DOMAIN acc.step_counts
                     THEN acc.step_successes
                     ELSE DictSet(acc.step_successes, step_name, 0)
  IN [step_counts |-> [counts EXCEPT ![step_name] = @ + 1],
      step_successes |-> IF result.success
                           THEN [successes EXCEPT ![step_name] = @ + 1]
                           ELSE successes,
      subject_success |-> acc.subject_success /\ result.success,
      subject_time |-> acc.subject_time + result.execution_time]

RECURSIVE StepLoop(_, _, _)
\* for step_name, result in subject_results.items(): ...
StepLoop(subject_results, names, acc) ==
  IF names = {} THEN acc
  ELSE LET step_name == CHOOSE n \in names : TRUE IN
       StepLoop(subject_results, names \ {step_name},
                StepTally(acc, step_name, subject_results[step_name]))

RECURSIVE SubjectLoop(_, _, _)
\* for subject_id, subject_results in results.items(): ...
SubjectLoop(results, keys, acc) ==
  IF keys = {} THEN acc
  ELSE LET subject_id == CHOOSE k \in keys : TRUE
           t == StepLoop(results[subject_id], DOMAIN results[subject_id],
                         [step_counts |-> acc.step_counts,
                          step_successes |-> acc.step_successes,
                          subject_success |-> TRUE,
                          subject_time |-> 0])
       IN SubjectLoop(results, keys \ {subject_id},
            [successful_subjects |->
               acc.successful_subjects + (IF t.subject_success THEN 1 ELSE 0),
             failed_subjects |->
               acc.failed_subjects + (IF t.subject_success THEN 0 ELSE 1),
             step_counts |-> t.step_counts,
             step_successes |-> t.step_successes,
             total_execution_time |->
               acc.total_execution_time + t.subject_time])

get_pipeline_summary(results) ==
  LET acc == SubjectLoop(results, DOMAIN results,
                         [successful_subjects |-> 0, failed_subjects |-> 0,
                          step_counts |-> EmptyDict,
                          step_successes |-> EmptyDict,
                          total_execution_time |-> 0])
      total_subjects == Cardinality(DOMAIN results)
  IN [total_subjects |-> total_subjects,
      successful_subjects |-> acc.successful_subjects,
      failed_subjects |-> acc.failed_subjects,
      step_success_rates |->
        [n \in {m \in DOMAIN acc.step_counts : acc.step_counts[m] > 0} |->
           <<acc.step_successes[n], acc.step_counts[n]>>],
      total_execution_time |-> acc.total_execution_time,
      average_execution_time |->
        IF total_subjects > 0
          THEN <<acc.total_execution_time, total_subjects>>
          ELSE <<0, 1>>]

\* The caller hands the returned collection to get_pipeline_summary.
GetPipelineSummary ==
  /\ batch_pc = "returned"
  /\ batch_pc' = "summarized"
  /\ results_arg' = all_results
  /\ summary' = get_pipeline_summary(all_results)
  /\ UNCHANGED <<config_vars, mode, n_jobs, subject_ids, next_subject, worker,
                 results_list, all_results, resolved, done_items, item_vars,
                 pool_request, dispatch_call, dispatch_outcome, catalog_vars, step_call>>

Next ==
  \/ RunMultipleSubjects
  \/ \E w \in Workers : StartSubject(w)
  \/ \E w \in Workers : SkipUnregistered(w)
  \/ \E w \in Workers : CallProcess(w)
  \/ \E w \in Workers : ProcessReturns(w)
  \/ \E w \in Workers : ProcessRaises(w)
  \/ \E w \in Workers : RunSubjectReturns(w)
  \/ BatchReturns
  \/ GetPipelineSummary

Spec == Init /\ [][Next]_vars

(***************************************************************************)
(* The file tree of one work item: subject 01 of a dataset without         *)
(* sessions.  A path is a string.  Plain paths are relative to             *)
(* analysis_dir/sub-01, "data:" paths to config.paths.data_dir, "flat:"    *)
(* paths to config.paths.analysis_dir and "base:" paths to                 *)
(* config.paths.base_path.  fs holds the paths that exist.                 *)
(***************************************************************************)
\* The phase-encoding directions of the acquisitions, in sorted order.
PEOrder == <<"AP", "PA">>

\* Paths inside a directory, given the file names.
In(dir, names) == {dir \o "/" \o n : n \in names}

\* The DWI acquisitions of the dataset, read by BIDSLayout.get_dwi_files.
BidsDwiDir == "data:sub-01/dwi"

BidsFile(d, ext) == "data:sub-01/dwi/sub-01_dir-" \o d \o "_dwi" \o ext

\* The subject's directory of a flat dataset and of its copy.
LegacySource == {"data:01", "data:01/dwi.nii.gz"}

LegacyCopy == {"flat:01", "flat:01/dwi.nii.gz"}

\* dwi/: the organized acquisitions and what denoise and degibbs add.
DwiFile(d, ext) == "dwi/sub-01_dir-" \o d \o "_dwi" \o ext

Dwi(d) == DwiFile(d, ".nii.gz")

Denoised(d) == DwiFile(d, "_denoised.nii.gz")

Degibbs(d) == DwiFile(d, "_denoised_degibbs.nii.gz")

\* dwi/Topup
TopupDwi == "dwi/Topup/01_topup_dwi.nii.gz"

TopupFieldcoef == "dwi/Topup/01_dir-AP-PA_dwi_Topup_fieldcoef.nii.gz"

TopupParams ==
  <<TopupDwi, "dwi/Topup/acq_params.txt", TopupFieldcoef,
    "dwi/Topup/01_dir-AP-PA_dwi_Topup_movpar.txt">>

TopupB0 ==
  In("dwi/Topup", {"01_dir-AP_dwi.nii.gz", "01_dir-PA_dwi.nii.gz",
                   "01_dir-AP-PA_dwi.nii.gz"})

\* dwi/Eddy
EddyUnwarped == "dwi/Eddy/01_eddy_unwarped.nii.gz"

EddyCopies ==
  <<"dwi/Eddy/01_dwi.nii.gz", "dwi/Eddy/acq_params.txt",
    "dwi/Eddy/01_dir-AP-PA_dwi_Topup_fieldcoef.nii.gz",
    "dwi/Eddy/01_dir-AP-PA_dwi_Topup_movpar.txt",
    "dwi/Eddy/01_dwi.bval", "dwi/Eddy/01_dwi.bvec">>

EddyMask == "dwi/Eddy/01_brain_mask.nii.gz"

EddyMade ==
  In("dwi/Eddy", {"01_1stVol.nii.gz", "01_brain.nii.gz", "index.txt",
                  "01_eddy_unwarped.eddy_rotated_bvecs",
                  "01_eddy_unwarped.eddy_movement_rms",
                  "01_eddy_unwarped.eddy_restricted_movement_rms",
                  "01_eddy_unwarped.eddy_parameters"})
    \cup {EddyMask, EddyUnwarped}

\* dwi/mdt: MDTProcessor.get_required_inputs and get_output_files, key by
\* key (dwi, bval, bvec, mask), and the protocol file.
MdtInputs ==
  <<EddyUnwarped, "dwi/Eddy/01_dwi.bval", "dwi/Eddy/01_dwi.bvec", EddyMask>>

MdtOutputs ==
  <<"dwi/mdt/sub-01.nii.gz", "dwi/mdt/sub-01.bval", "dwi/mdt/sub-01.bvec",
    "dwi/mdt/sub-01_brain_mask.nii.gz">>

MdtProtocol == "dwi/mdt/sub-01.prtcl"

\* What mdt-model-fit AxCaliber writes.
MdtModelFit ==
  {"dwi/mdt/output", "dwi/mdt/output/sub-01_brain_mask",
   "dwi/mdt/output/sub-01_brain_mask/AxCaliber"}

\* dwi/mrtrix3: MRtrixPreprocessor._setup_directories copies these ...
MrtrixSources ==
  <<"dwi/mdt/01.nii.gz", "dwi/mdt/01.bvec", "dwi/mdt/01.bval",
    "dwi/mdt/01_brain_mask.nii.gz">>

MrtrixCopies ==
  <<"dwi/mrtrix3/01.nii.gz", "dwi/mrtrix3/01.bvec", "dwi/mrtrix3/01.bval",
    "dwi/mrtrix3/01_brain_mask.nii.gz">>

\* ... and its commands write these.
MrtrixMade ==
  In("dwi/mrtrix3",
     {"01.mif", "01_brain_mask.mif", "wm.txt", "gm.txt", "csf.txt",
      "voxels.mif", "wmfod.mif", "gmfod.mif", "csffod.mif", "vf.mif",
      "wmfod_norm.mif", "gmfod_norm.mif", "csffod_norm.mif",
      "5tt_nocoreg_fs.mif", "mean_b0.mif", "mean_b0.nii.gz",
      "5tt_nocoreg_fs.nii.gz", "5tt_fs_vol0.nii.gz", "mean_b0_brain.nii.gz",
      "mean_b0_brain.mif", "fs2diff_0GenericAffine.mat",
      "fs2diff_0GenericAffine.txt", "fs2diff_mrtrix.txt",
      "5tt_coreg_fs_ants.mif", "gmwmSeed_coreg_fs_ants.mif"})

GmwmSeed == "dwi/mrtrix3/gmwmSeed_coreg_fs_ants.mif"

Hemispheres == <<"L", "R">>

\* TrackGenerator
BnstRoiSource(h) == "base:ROIs/" \o h \o "_bnst_fsaverage.nii.gz"

BnstRoi(h, ext) == "dwi/mrtrix3/" \o h \o "_bnst_DWI" \o ext

Tracks(n, h) == "dwi/mrtrix3/tracks_" \o n \o "_BNST_" \o h \o ".tck"

\* TrackFilter
NdiMask == "dwi/mrtrix3/ndi_5tt_mask.mif"

Sift(kind, h) == "dwi/mrtrix3/sift_" \o kind \o "1M_BNST_" \o h \o ".txt"

\* The two places TrackFilter looks for the NDI map, with their parents.
NoddiPaths ==
  <<"dwi/mdt/output/sub-01_brain_mask/NODDIDA/NDI.nii.gz",
    "dwi/mdt/NODDIDA/NDI.nii.gz">>

\* ROIRegistration
bnst_regions ==
  <<"L_amygdala", "R_amygdala", "L_hippocampus", "R_hippocampus", "L_vmPFC",
    "R_vmPFC", "L_insula", "R_insula", "L_hypothalamus", "R_hypothalamus",
    "L_bnst", "R_bnst">>

RoiSource(r) == "base:ROIs/" \o r \o "_fsaverage.nii.gz"

RoiDwi(r, ext) == "dwi/mrtrix3/ROIs/" \o r \o "_DWI" \o ext

Parcellation(side) ==
  "dwi/mrtrix3/ROIs/" \o side \o "_bnst_network_parcellation.mif"

\* ConnectivityMatrix: the microstructure maps it reads.
MicrostructureMaps ==
  In("dwi/mdt/output/01_brain_mask",
     {"NODDIDA/NDI.nii.gz", "NODDIDA/ODI.nii.gz",
      "BallStick_r1/w_stick0.w.nii.gz", "BallStick_r1/w_ball.w.nii.gz"})

ConnectomeFiles ==
  <<"dwi/connectome/composite_microstructure.mif",
    "dwi/connectome/track_weights_1M_BNST_L.txt",
    "dwi/connectome/track_weights_1M_BNST_R.txt",
    "dwi/connectome/fingerprints/L_BNST_fingerprint.csv",
    "dwi/connectome/fingerprints/R_BNST_fingerprint.csv">>

\* Everything the steps keep under dwi/mrtrix3.
MrtrixTree ==
  {"dwi/mrtrix3", "dwi/mrtrix3/ROIs", NdiMask}
    \cup Range(MrtrixCopies) \cup MrtrixMade
    \cup {BnstRoi(h, e) : h \in Range(Hemispheres),
                          e \in {".nii.gz", ".mif", ".nii.mif"}}
    \cup {Tracks(n, h) : n \in {"5M", "1M"}, h \in Range(Hemispheres)}
    \cup {Sift(k, h) : k \in {"", "mu_", "coeffs_"}, h \in Range(Hemispheres)}
    \cup {RoiDwi(r, e) : r \in Range(bnst_regions), e \in {".nii.gz", ".mif"}}
    \cup {Parcellation(s) : s \in {"left", "right"}}

\* all(path.exists() for path in paths)
AllExist(paths, f) == \A i \in DOMAIN paths : paths[i] \in f

(***************************************************************************)
(* get_expected_outputs, per processor class.                              *)
(***************************************************************************)
\* DWIDenoiser._find_dwi_files: the images in dwi/ named *dwi* and not
\* *denoised*, sorted.
_find_dwi_files(f) == SelectSeq(PEOrder, LAMBDA d : Dwi(d) \in f)

\* GibbsRemover._find_denoised_dwi_files: those named *denoised* and not
\* *degibbs*, sorted.
_find_denoised_dwi_files(f) == SelectSeq(PEOrder, LAMBDA d : Denoised(d) \in f)

MrtrixExpected ==
  <<"dwi/mrtrix3/01.mif", "dwi/mrtrix3/wmfod_norm.mif",
    "dwi/mrtrix3/gmfod_norm.mif", "dwi/mrtrix3/csffod_norm.mif",
    "dwi/mrtrix3/5tt_coreg_fs_ants.mif", GmwmSeed>>

_get_expected_track_files == [i \in DOMAIN Hemispheres |-> Tracks("5M", Hemispheres[i])]

\* Variant: only the track files are listed.
TrackExpected_TracksOnly == _get_expected_track_files

TrackExpected ==
  [i \in DOMAIN Hemispheres |-> BnstRoi(Hemispheres[i], ".nii.gz")]
    \o [i \in DOMAIN Hemispheres |-> BnstRoi(Hemispheres[i], ".mif")]
    \o _get_expected_track_files

\* config.processing.sift2_output_mu and sift2_output_coeffs are on.
SiftExpected ==
  <<NdiMask>> \o [i \in DOMAIN Hemispheres |-> Sift("", Hemispheres[i])]
    \o [i \in DOMAIN Hemispheres |-> Sift("mu_", Hemispheres[i])]
    \o [i \in DOMAIN Hemispheres |-> Sift("coeffs_", Hemispheres[i])]

RoiExpected ==
  [i \in DOMAIN bnst_regions |-> RoiDwi(bnst_regions[i], ".mif")]
    \o <<Parcellation("left"), Parcellation("right")>>

get_expected_outputs(step_name, f) ==
  CASE step_name = "copy_data" -> <<"flat:01">>
    [] step_name = "denoise" ->
         IF "dwi" \notin f THEN <<>>
         ELSE [i \in DOMAIN _find_dwi_files(f) |-> Denoised(_find_dwi_files(f)[i])]
    [] step_name = "degibbs" ->
         IF "dwi" \notin f THEN <<>>
         ELSE [i \in DOMAIN _find_denoised_dwi_files(f) |-> Degibbs(_find_denoised_dwi_files(f)[i])]
    [] step_name = "topup" -> <<TopupDwi>>
    [] step_name = "eddy" -> <<EddyUnwarped>>
    [] step_name = "mdt" -> MdtOutputs
    [] step_name = "mrtrix_prep" -> MrtrixExpected
    [] step_name = "tractography" -> TrackExpected
    [] step_name = "sift2" -> SiftExpected
    [] step_name = "roi_registration" -> RoiExpected
    [] step_name = "connectome" -> ConnectomeFiles

\* BaseProcessor.check_outputs_exist (MDTProcessor overrides it with the
\* same test on the same four files).
check_outputs_exist(step_name, f) ==
  AllExist(get_expected_outputs(step_name, f), f)

\* Variant: the force-overwrite flag is not consulted.
should_skip_IgnoresForce(step_name, f, force) ==
  check_outputs_exist(step_name, f)

\* BaseProcessor.should_skip and its four overrides.
should_skip(step_name, f, force) ==
  LET expected_outputs == get_expected_outputs(step_name, f) IN
  IF force THEN FALSE
  ELSE IF step_name \in {"denoise", "degibbs"}
    THEN IF expected_outputs = <<>> THEN FALSE
         ELSE AllExist(expected_outputs, f)
  ELSE IF step_name \in {"topup", "eddy"}
    THEN IF expected_outputs = <<>> THEN FALSE
         ELSE expected_outputs[1] \in f
  ELSE check_outputs_exist(step_name, f)

(***************************************************************************)
(* process, per processor class.  A call is given the tree f, the force    *)
(* flag and ok: whether the external commands it runs succeed (when they   *)
(* do not, the first one fails).  It answers with the success flag of its  *)
(* ProcessingResult, the tree it leaves and the commands it started.       *)
(***************************************************************************)
Res(success, f, commands) ==
  [success |-> success, fs |-> f, commands |-> commands, skipped |-> FALSE,
   error_message |-> NoMessage, metrics |-> EmptyDict]

\* Variant: a failed result is built without its message.
Failed_NoMessage(f, commands, message) ==
  [success |-> FALSE, fs |-> f, commands |-> commands, skipped |-> FALSE,
   error_message |-> NoMessage, metrics |-> EmptyDict]

\* ProcessingResult(success=False, ..., error_message=message)
Failed(f, commands, message) ==
  [success |-> FALSE, fs |-> f, commands |-> commands, skipped |-> FALSE,
   error_message |-> message, metrics |-> EmptyDict]

\* str(e) of the error a failed external command is turned into.
CommandError(command) == command \o " failed: stderr"

\* The result of a call that found its output in place and left the work
\* undone: success, nothing started.
SkippedResult(f) ==
  [success |-> TRUE, fs |-> f, commands |-> {}, skipped |-> TRUE,
   error_message |-> NoMessage, metrics |-> EmptyDict]

RECURSIVE CopyFiles(_, _, _, _)
\* for source, dest in files_to_copy: raise if the source is missing, else
\* copy.  done tells whether the loop got through.
CopyFiles(sources, dests, f, i) ==
  IF i > Len(sources) THEN [fs |-> f, done |-> TRUE]
  ELSE IF sources[i] \notin f THEN [fs |-> f, done |-> FALSE]
  ELSE CopyFiles(sources, dests, f \cup {dests[i]}, i + 1)

\* BIDSLayout.get_dwi_files: the glob that is used is the one of the last
\* extension tried, .nii.
get_dwi_files(f) ==
  IF BidsDwiDir \notin f THEN {}
  ELSE {d \in Range(PEOrder) : BidsFile(d, ".nii") \in f}

_process_bids_subject(f) ==
  LET f1 == f \cup {"dwi", "anat"}
      dwi_files == get_dwi_files(f)
      sidecars == {p \in dwi_files \X {".bval", ".bvec"} :
                     BidsFile(p[1], p[2]) \in f}
  IN IF dwi_files = {}
       THEN Failed(f1, {}, <<"No DWI files found for subject ", "01">>)
     ELSE Res(TRUE,
              f1 \cup {Dwi(d) : d \in dwi_files}
                 \cup {DwiFile(p[1], p[2]) : p \in sidecars}
                 \cup {"processing_log.txt"},
              {})

_process_legacy_subject(f, force) ==
  IF "data:01" \notin f
    THEN Failed(f, {}, <<"Source directory does not exist: ", "data:01">>)
  ELSE LET f1 == f \cup {"flat:01"} IN
       IF ~force /\ "flat:01/dwi.nii.gz" \in f1 THEN SkippedResult(f1)
       ELSE Res(TRUE,
                IF "data:01/dwi.nii.gz" \in f1
                  THEN f1 \cup {"flat:01/dwi.nii.gz"} ELSE f1,
                {})

DataOrganizer_process(f, force, bids) ==
  IF bids THEN _process_bids_subject(f) ELSE _process_legacy_subject(f, force)

\* Variant: the step succeeds only when it has denoised a file itself.
DWIDenoiser_process_ProcessedOnly(f, force, ok) ==
  IF "dwi" \notin f THEN Failed(f, {}, <<"DWI directory not found: ", "dwi">>)
  ELSE LET dwi_files == Range(_find_dwi_files(f))
           files_skipped == {d \in dwi_files : Denoised(d) \in f /\ ~force}
           attempted == dwi_files \ files_skipped
           files_processed == IF ok THEN attempted ELSE {}
           success == files_processed # {}
       IN IF dwi_files = {}
            THEN Failed(f, {}, <<"No DWI files found in ", "dwi">>)
          ELSE [Res(success,
                    f \cup {Denoised(d) : d \in files_processed},
                    IF attempted = {} THEN {} ELSE {"dwidenoise"})
                  EXCEPT !.skipped = files_skipped # {},
                         !.metrics =
                            [files_processed |-> Cardinality(files_processed),
                             files_skipped |-> Cardinality(files_skipped)],
                         !.error_message =
                            IF success THEN NoMessage
                            ELSE <<"No DWI files found to denoise">>]

\* DWIDenoiser.process: one dwidenoise per input whose output is missing
\* (or per input, under force); a failure on a file is logged and the file
\* counts neither as processed nor as skipped.
DWIDenoiser_process(f, force, ok) ==
  IF "dwi" \notin f THEN Failed(f, {}, <<"DWI directory not found: ", "dwi">>)
  ELSE LET dwi_files == Range(_find_dwi_files(f))
           files_skipped == {d \in dwi_files : Denoised(d) \in f /\ ~force}
           attempted == dwi_files \ files_skipped
           files_processed == IF ok THEN attempted ELSE {}
           success == files_processed \cup files_skipped # {}
       IN IF dwi_files = {}
            THEN Failed(f, {}, <<"No DWI files found in ", "dwi">>)
          ELSE [Res(success,
                    f \cup {Denoised(d) : d \in files_processed},
                    IF attempted = {} THEN {} ELSE {"dwidenoise"})
                  EXCEPT !.skipped = files_skipped # {},
                         !.metrics =
                            [files_processed |-> Cardinality(files_processed),
                             files_skipped |-> Cardinality(files_skipped)],
                         !.error_message =
                            IF success THEN NoMessage
                            ELSE <<"No DWI files found to denoise">>]

\* GibbsRemover.process: the same loop over the denoised images.
GibbsRemover_process(f, force, ok) ==
  IF "dwi" \notin f THEN Failed(f, {}, <<"DWI directory not found: ", "dwi">>)
  ELSE LET dwi_files == Range(_find_denoised_dwi_files(f))
           files_skipped == {d \in dwi_files : Degibbs(d) \in f /\ ~force}
           attempted == dwi_files \ files_skipped
           files_processed == IF ok THEN attempted ELSE {}
           success == files_processed \cup files_skipped # {}
       IN IF dwi_files = {}
            THEN Failed(f, {}, <<"No denoised DWI files found in ", "dwi">>)
          ELSE [Res(success,
                    f \cup {Degibbs(d) : d \in files_processed},
                    IF attempted = {} THEN {} ELSE {"mrdegibbs"})
                  EXCEPT !.skipped = files_skipped # {},
                         !.metrics =
                            [files_processed |-> Cardinality(files_processed),
                             files_skipped |-> Cardinality(files_skipped)],
                         !.error_message =
                            IF success THEN NoMessage
                            ELSE <<"No denoised DWI files found to process">>]

\* DistortionCorrector._find_phase_encoding_files: a pair of opposite
\* directions among the denoised images, else among the organized ones.
_find_phase_encoding_files(f) ==
  \/ \A d \in Range(PEOrder) : Denoised(d) \in f
  \/ \A d \in Range(PEOrder) : Dwi(d) \in f

DistortionCorrector_process(f, force, ok) ==
  IF "dwi" \notin f THEN Failed(f, {}, <<"DWI directory not found: ", "dwi">>)
  ELSE LET f1 == f \cup {"dwi/Topup"} IN
       IF ~_find_phase_encoding_files(f1) THEN Res(TRUE, f1, {})
       ELSE IF TopupDwi \in f1 /\ ~force THEN SkippedResult(f1)
       ELSE IF ok
         THEN Res(TRUE, f1 \cup TopupB0 \cup Range(TopupParams),
                  {"fslroi", "fslmerge", "topup", "applytopup"})
         ELSE Failed(f1, {"fslroi"},
                     <<"TopUp distortion correction failed for subject ", "01",
                       ": ", CommandError("fslroi")>>)

\* EddyCorrector._setup_eddy_directory: the sources are the four TopUp
\* files and the bval and bvec of the first direction.
EddySources ==
  TopupParams \o <<DwiFile("AP", ".bval"), DwiFile("AP", ".bvec")>>

EddyCorrector_process(f, force, ok) ==
  IF "dwi/Topup" \notin f
    THEN Failed(f, {}, <<"TopUp directory not found: ", "dwi/Topup",
                         ". Run TopUp first.">>)
  ELSE IF EddyUnwarped \in f /\ ~force THEN SkippedResult(f)
  ELSE LET f1 == f \cup {"dwi/Eddy"}
           globbed == {DwiFile("AP", ".bval"), DwiFile("AP", ".bvec")}
                        \subseteq f1
           setup == CopyFiles(EddySources, EddyCopies, f1, 1)
           failed == "Eddy current correction failed for subject "
       IN IF TopupFieldcoef \notin f1
            THEN Failed(f1, {}, <<"Could not determine phase encoding ",
                                  "direction from TopUp outputs">>)
          ELSE IF ~globbed
            THEN Failed(f1, {}, <<failed, "01", ": ", "Could not find file">>)
          ELSE IF ~setup.done
            THEN Failed(setup.fs, {},
                        <<failed, "01", ": ", "Required input file not found">>)
          ELSE IF ok
            THEN Res(TRUE, setup.fs \cup EddyMade,
                     {"fslroi", "bet", "fslinfo", "eddy"})
            ELSE Failed(setup.fs, {"fslroi"},
                        <<failed, "01", ": ", CommandError("fslroi")>>)

\* MDTProcessor.process_subject.  A failure of the MDT commands is only
\* logged.
MDTProcessor_process(f, mdt, ok) ==
  IF ~AllExist(MdtInputs, f) THEN Failed(f, {}, <<"MDT processing failed">>)
  ELSE LET f1 == CopyFiles(MdtInputs, MdtOutputs, f \cup {"dwi/mdt"}, 1).fs
           f2 == IF mdt
                   THEN IF ok THEN f1 \cup {MdtProtocol} \cup MdtModelFit
                        ELSE f1
                   ELSE f1 \cup {MdtProtocol}
           commands == IF ~mdt THEN {}
                       ELSE IF ok THEN {"mdt-create-protocol", "mdt-model-fit"}
                       ELSE {"mdt-create-protocol"}
       IN IF check_outputs_exist("mdt", f2) THEN Res(TRUE, f2, commands)
          ELSE Failed(f2, commands, <<"MDT processing failed">>)

\* MRtrixPreprocessor.process: an existing mrtrix3 directory is removed
\* before the work starts.
MRtrixPreprocessor_process(f, force, ok) ==
  IF "dwi/mdt" \notin f
    THEN Failed(f, {}, <<"MDT directory not found: ", "dwi/mdt",
                         ". Run MDT step first.">>)
  ELSE IF GmwmSeed \in f /\ ~force THEN SkippedResult(f)
  ELSE LET f1 == (f \ MrtrixTree) \cup {"dwi/mrtrix3"}
           setup == CopyFiles(MrtrixSources, MrtrixCopies, f1, 1)
           failed == "MRtrix3 preprocessing failed for subject "
       IN IF ~setup.done
            THEN Failed(setup.fs, {},
                        <<failed, "01", ": ", "Required input file not found">>)
          ELSE IF ok
            THEN Res(TRUE, setup.fs \cup MrtrixMade,
                     {"mrconvert", "dwi2response", "dwi2fod", "mtnormalise",
                      "dwiextract", "fslroi", "fslmaths",
                      "antsRegistrationSyNQuick.sh", "ConvertTransformFile",
                      "transformconvert", "mrtransform", "5tt2gmwmi"})
            ELSE Failed(setup.fs, {"mrconvert"},
                        <<failed, "01", ": ", CommandError("mrconvert")>>)

\* TrackGenerator.process.  The converted ROIs are named by
\* Path.with_suffix, which replaces only ".gz"; _generate_tracks knows
\* neither name and starts no tckgen.
TrackGenerator_process(f, force, ok) ==
  LET prerequisites ==
        In("dwi/mrtrix3", {"wmfod_norm.mif", "5tt_coreg_fs_ants.mif",
                           "fs2diff_mrtrix.txt"})
          \cup {BnstRoiSource(h) : h \in Range(Hemispheres)}
  IN IF ~(prerequisites \subseteq f)
       THEN Failed(f, {}, <<"Prerequisites not met for subject ", "01">>)
     ELSE IF AllExist(_get_expected_track_files, f) /\ ~force
       THEN SkippedResult(f)
     ELSE IF ok
       THEN Res(TRUE,
                f \cup {BnstRoi(h, e) : h \in Range(Hemispheres),
                                        e \in {".nii.gz", ".nii.mif"}},
                {"mrtransform", "mrconvert"})
       ELSE Failed(f, {"mrtransform"},
                   <<"Tractography failed for subject ", "01", ": ",
                     CommandError("mrtransform")>>)

\* TrackFilter.process
TrackFilter_process(f, ok) ==
  LET prerequisites ==
        In("dwi/mrtrix3", {"wmfod_norm.mif", "5tt_coreg_fs_ants.mif"})
          \cup {Tracks("1M", h) : h \in Range(Hemispheres)}
      ndi_file == \E i \in DOMAIN NoddiPaths : NoddiPaths[i] \in f
      failed == "SIFT2 filtering failed for subject "
  IN IF ~(ndi_file /\ prerequisites \subseteq f)
       THEN Failed(f, {}, <<failed, "01", ": ",
                            "Missing prerequisite files for SIFT2 filtering">>)
     ELSE IF ok
       THEN Res(TRUE, f \cup Range(SiftExpected), {"mrcalc", "tcksift2"})
     ELSE Failed(f, {"mrcalc"}, <<failed, "01", ": ", CommandError("mrcalc")>>)

\* ROIRegistration.process
ROIRegistration_process(f, ok) ==
  LET prerequisites ==
        In("dwi/mrtrix3", {"fs2diff_0GenericAffine.mat", "mean_b0_brain.mif"})
          \cup {"base:ROIs"} \cup {RoiSource(r) : r \in Range(bnst_regions)}
      f1 == f \cup {"dwi/mrtrix3/ROIs"}
      failed == "ROI registration failed for "
  IN IF ~(prerequisites \subseteq f)
       THEN Failed(f, {}, <<failed, "01", ": ", "Required file not found">>)
     ELSE IF ok
       THEN Res(TRUE,
                f1 \cup {RoiDwi(r, e) : r \in Range(bnst_regions),
                                         e \in {".nii.gz", ".mif"}}
                   \cup {Parcellation(s) : s \in {"left", "right"}},
                {"mri_binarize", "mrconvert", "antsApplyTransforms", "mrcalc"})
       ELSE Failed(f1, {"mri_binarize", "mrcalc"},
                   <<failed, "01", ": ", "Expected output file not created">>)

\* ConnectivityMatrix.process
ConnectivityMatrix_process(f, ok) ==
  LET prerequisites ==
        MicrostructureMaps
          \cup {Tracks("1M", h) : h \in Range(Hemispheres)}
          \cup {Parcellation(s) : s \in {"left", "right"}}
      f1 == f \cup {"dwi", "dwi/connectome", "dwi/connectome/fingerprints"}
      failed == "Connectome generation failed for subject "
  IN IF ~(prerequisites \subseteq f)
       THEN Failed(f1, {},
                   <<failed, "01", ": ",
                     "Missing prerequisite files for connectome generation">>)
     ELSE IF ok
       THEN Res(TRUE, f1 \cup Range(ConnectomeFiles),
                {"mrcalc", "tcksample", "tck2connectome"})
       ELSE Failed(f1, {"mrcalc"},
                   <<failed, "01", ": ", CommandError("mrcalc")>>)

\* Variant: the processors are called as if force-overwrite were unset.
process_Unforced(step_name, f, force, bids, mdt, ok) ==
  CASE step_name = "copy_data" -> DataOrganizer_process(f, FALSE, bids)
    [] step_name = "denoise" -> DWIDenoiser_process(f, FALSE, ok)
    [] step_name = "degibbs" -> GibbsRemover_process(f, FALSE, ok)
    [] step_name = "topup" -> DistortionCorrector_process(f, FALSE, ok)
    [] step_name = "eddy" -> EddyCorrector_process(f, FALSE, ok)
    [] step_name = "mdt" -> MDTProcessor_process(f, mdt, ok)
    [] step_name = "mrtrix_prep" -> MRtrixPreprocessor_process(f, FALSE, ok)
    [] step_name = "tractography" -> TrackGenerator_process(f, FALSE, ok)
    [] step_name = "sift2" -> TrackFilter_process(f, ok)
    [] step_name = "roi_registration" -> ROIRegistration_process(f, ok)
    [] step_name = "connectome" -> ConnectivityMatrix_process(f, ok)

\* processor.process(subject_id, session_id), by registered name.
process(step_name, f, force, bids, mdt, ok) ==
  CASE step_name = "copy_data" -> DataOrganizer_process(f, force, bids)
    [] step_name = "denoise" -> DWIDenoiser_process(f, force, ok)
    [] step_name = "degibbs" -> GibbsRemover_process(f, force, ok)
    [] step_name = "topup" -> DistortionCorrector_process(f, force, ok)
    [] step_name = "eddy" -> EddyCorrector_process(f, force, ok)
    [] step_name = "mdt" -> MDTProcessor_process(f, mdt, ok)
    [] step_name = "mrtrix_prep" -> MRtrixPreprocessor_process(f, force, ok)
    [] step_name = "tractography" -> TrackGenerator_process(f, force, ok)
    [] step_name = "sift2" -> TrackFilter_process(f, ok)
    [] step_name = "roi_registration" -> ROIRegistration_process(f, ok)
    [] step_name = "connectome" -> ConnectivityMatrix_process(f, ok)

(***************************************************************************)
(* One work item run through run_subject, cut off or not, and run again.   *)
(***************************************************************************)
\* The steps in the order _initialize_processors knows them.
PipelineOrder ==
  <<"copy_data", "denoise", "degibbs", "topup", "eddy", "mdt", "mrtrix_prep",
    "tractography", "sift2", "roi_registration", "connectome">>

\* The configured sequences: runs of up to MaxChain consecutive steps.
ItemConfigs ==
  {SubSeq(PipelineOrder, p[1], p[1] + p[2] - 1) :
     p \in {q \in (1..Len(PipelineOrder)) \X (1..MaxChain) :
              q[1] + q[2] - 1 <= Len(PipelineOrder)}}

Acquisition(d) == {"dwi", Dwi(d), DwiFile(d, ".bval"), DwiFile(d, ".bvec")}

BidsDataset(ext) ==
  {BidsDwiDir} \cup
  {BidsFile(d, e) : d \in Range(PEOrder), e \in {ext, ".bval", ".bvec"}}

TopupTree == {"dwi", "dwi/Topup"} \cup TopupB0 \cup Range(TopupParams)

EddyTree == {"dwi", "dwi/Eddy"} \cup Range(EddyCopies) \cup EddyMade

MdtTree == {"dwi", "dwi/mdt", MdtProtocol} \cup Range(MdtOutputs)

MrtrixPrepTree ==
  {"dwi", "dwi/mdt", "dwi/mrtrix3"} \cup Range(MrtrixCopies) \cup MrtrixMade

\* What may be on disk before the first run, per configured step: what the
\* step reads, what an earlier run of it or of its predecessor left.
Seeds(step_name) ==
  CASE step_name = "copy_data" ->
         {BidsDataset(".nii") \cup LegacySource, BidsDataset(".nii.gz"),
          LegacyCopy}
    [] step_name = "denoise" ->
         {Acquisition("AP"), Acquisition("PA"), {"dwi", Denoised("AP")},
          {"dwi"} \cup {Denoised(d) : d \in Range(PEOrder)}}
    [] step_name = "degibbs" ->
         {{"dwi"} \cup {Denoised(d) : d \in Range(PEOrder)},
          {"dwi"} \cup {Degibbs(d) : d \in Range(PEOrder)}}
    [] step_name = "topup" ->
         {Acquisition("AP"), Acquisition("PA"), TopupTree}
    [] step_name = "eddy" ->
         {TopupTree \cup Acquisition("AP"), {"dwi", "dwi/Topup"}, EddyTree}
    [] step_name = "mdt" -> {EddyTree, MdtTree}
    [] step_name = "mrtrix_prep" ->
         {MdtTree, {"dwi", "dwi/mdt"} \cup Range(MrtrixSources),
          MrtrixPrepTree}
    [] step_name = "tractography" ->
         {MrtrixPrepTree \cup {BnstRoiSource(h) : h \in Range(Hemispheres)},
          {"dwi", "dwi/mrtrix3"} \cup Range(TrackExpected)}
    [] step_name = "sift2" ->
         {MrtrixPrepTree \cup {NoddiPaths[1]}
            \cup {Tracks("1M", h) : h \in Range(Hemispheres)},
          {"dwi", "dwi/mrtrix3"} \cup Range(SiftExpected)}
    [] step_name = "roi_registration" ->
         {MrtrixPrepTree \cup {"base:ROIs"}
            \cup {RoiSource(r) : r \in Range(bnst_regions)},
          {"dwi", "dwi/mrtrix3", "dwi/mrtrix3/ROIs"} \cup Range(RoiExpected)}
    [] step_name = "connectome" ->
         {{"dwi", "dwi/mdt", "dwi/mrtrix3", "dwi/mrtrix3/ROIs"}
            \cup MicrostructureMaps
            \cup {Tracks("1M", h) : h \in Range(Hemispheres)}
            \cup {Parcellation(s) : s \in {"left", "right"}},
          {"dwi", "dwi/connectome", "dwi/connectome/fingerprints"}
            \cup Range(ConnectomeFiles)}

InitItem ==
  /\ steps_to_run \in ItemConfigs
  /\ connectivity_ok \in
       (IF "connectome" \in Range(steps_to_run) THEN BOOLEAN ELSE {TRUE})
  /\ processors = InitializeProcessors(steps_to_run, connectivity_ok)
  /\ batch_pc = "item"
  /\ mode = "sequential"
  /\ n_jobs = 0
  /\ subject_ids = <<"01">>
  /\ next_subject = 1
  /\ worker = [w \in Workers |-> IdleWorker]
  /\ results_list = EmptyDict
  /\ all_results = EmptyDict
  /\ resolved = EmptyDict
  /\ done_items = EmptyDict
  /\ fs \in {UNION chosen :
               chosen \in SUBSET UNION {Seeds(s) : s \in Range(steps_to_run)}}
  /\ force_overwrite \in BOOLEAN
  \* the layout and the MDT installation show only in the step they serve
  /\ is_bids \in
       (IF "copy_data" \in Range(steps_to_run) THEN BOOLEAN ELSE {TRUE})
  /\ mdt_available \in
       (IF "mdt" \in Range(steps_to_run) THEN BOOLEAN ELSE {TRUE})
  /\ run_no = 0
  /\ trunc = NotTruncated
  /\ calls = <<>>
  /\ skip_answer = NoAnswer
  /\ results_arg = EmptyDict
  /\ summary = NoSummary
  /\ pool_request = NoRequest
  /\ dispatch_call = NoCall
  /\ dispatch_outcome = NoCall
  /\ NoCatalog

batch_vars == <<batch_pc, mode, n_jobs, subject_ids, next_subject,
                results_list, all_results, resolved, done_items>>

env_vars == <<force_overwrite, is_bids, mdt_available>>

\* run_subject("01") is called: the first time, or again after the first
\* call returned or was cut off.
ItemRunSubject ==
  /\ batch_pc = "item"
  /\ worker[1].pc = "idle"
  /\ run_no < MaxRuns
  /\ run_no' = run_no + 1
  /\ worker' = [worker EXCEPT ![1] =
                  EnterRunSubject([IdleWorker EXCEPT !.idx = 1], <<>>, 0)]
  /\ UNCHANGED <<config_vars, batch_vars, call_vars, env_vars, fs, trunc, calls,
                 skip_answer>>

ItemAtStep ==
  /\ batch_pc = "item"
  /\ worker[1].pc = "loop"
  /\ worker[1].pos <= Len(steps_to_run)

\* if step_name not in self.processors: warning, continue
ItemSkipUnregistered ==
  /\ ItemAtStep
  /\ CurStep(1) \notin processors
  /\ worker' = [worker EXCEPT ![1].pos = @ + 1]
  /\ UNCHANGED <<config_vars, batch_vars, call_vars, item_vars>>

\* One iteration of the loop for a registered step: process is called on
\* the tree as it is, and its result is recorded.
ItemProcess ==
  /\ ItemAtStep
  /\ CurStep(1) \in processors
  /\ \E ok \in BOOLEAN :
       LET step_name == CurStep(1)
           p == process(step_name, fs, force_overwrite, is_bids,
                        mdt_available, ok)
           r == [success |-> p.success, execution_time |-> 1,
                 error_message |-> p.error_message]
       IN
       /\ fs' = p.fs
       /\ calls' = Append(calls,
            [run |-> run_no, pos |-> worker[1].pos, step |-> step_name,
             outputs_existed |-> check_outputs_exist(step_name, fs),
             should_skip |-> should_skip(step_name, fs, force_overwrite),
             success |-> p.success, commands |-> p.commands,
             skipped |-> p.skipped, ok |-> ok,
             error_message |-> p.error_message, metrics |-> p.metrics,
             written |-> (p.fs \ fs) \cup (fs \ p.fs)])
       /\ worker' = [worker EXCEPT ![1] =
                       RecordResult(@, step_name, r, "return")]
  /\ UNCHANGED <<config_vars, batch_vars, call_vars, env_vars, run_no, trunc,
                 skip_answer>>

\* The first run is cut off between two steps.
ItemTruncate ==
  /\ ItemAtStep
  /\ run_no = 1
  /\ worker[1].pos > 1
  /\ trunc' = worker[1].pos - 1
  /\ worker' = [worker EXCEPT ![1] = IdleWorker]
  /\ UNCHANGED <<config_vars, batch_vars, call_vars, env_vars, fs, run_no, calls,
                 skip_answer>>

\* run_subject returns.
ItemReturns ==
  /\ batch_pc = "item"
  /\ ItemTerminal(1)
  /\ worker' = [worker EXCEPT ![1] = IdleWorker]
  /\ UNCHANGED <<config_vars, batch_vars, call_vars, item_vars>>

\* should_skip("01") is called on a registered processor, between runs.
ItemShouldSkip ==
  /\ batch_pc = "item"
  /\ worker[1].pc = "idle"
  /\ \E step_name \in processors :
       LET expected == get_expected_outputs(step_name, fs) IN
       skip_answer' =
         [step |-> step_name,
          answer |-> should_skip(step_name, fs, force_overwrite),
          expected |-> expected,
          present |-> Range(expected) \cap fs,
          force |-> force_overwrite]
  /\ UNCHANGED <<config_vars, batch_vars, call_vars, env_vars, worker, fs, run_no,
                 trunc, calls>>

NextItem ==
  \/ ItemRunSubject
  \/ ItemSkipUnregistered
  \/ ItemProcess
  \/ ItemTruncate
  \/ ItemReturns
  \/ ItemShouldSkip

SpecItem == InitItem /\ [][NextItem]_vars

(***************************************************************************)
(* get_pipeline_summary called on a collection of run_subject results.     *)
(***************************************************************************)
\* The configured sequences: MaxSummarySteps consecutive steps.
SummaryConfigs ==
  {SubSeq(PipelineOrder, k, k + MaxSummarySteps - 1) :
     k \in 1..Min(3, Len(PipelineOrder) + 1 - MaxSummarySteps)}

\* What process hands back for a step, or what the except branch builds.
StepResults(step_name) ==
  ReturnedResults \cup {UnexpectedErrorResult(step_name, "01", None, "boom")}

RECURSIVE RunSubjectOutcomes(_, _, _)
\* The dicts run_subject can return for the configured steps from position
\* i on: an unregistered name leaves no entry, a failed critical step ends
\* the loop.
RunSubjectOutcomes(steps, registered, i) ==
  IF i > Len(steps) THEN {EmptyDict}
  ELSE IF steps[i] \notin registered
    THEN RunSubjectOutcomes(steps, registered, i + 1)
  ELSE UNION {
         IF ~r.success /\ IsCriticalStep(steps[i])
           THEN {DictSet(EmptyDict, steps[i], r)}
           ELSE {DictUpdate(DictSet(EmptyDict, steps[i], r), rest) :
                   rest \in RunSubjectOutcomes(steps, registered, i + 1)}
         : r \in StepResults(steps[i])}

\* The collections run_multiple_subjects can return: an entry per key, each
\* a run_subject result or the empty entry of a subject that raised.
ResultCollections(steps) ==
  LET entries == RunSubjectOutcomes(steps, InitializeProcessors(steps, TRUE), 1)
                   \cup {EmptyDict}
  IN UNION {[keys -> entries] :
              keys \in {K \in SUBSET SubjectPool :
                          Cardinality(K) <= MaxSummaryItems}}

InitSummary ==
  /\ steps_to_run \in SummaryConfigs
  /\ connectivity_ok = TRUE
  /\ processors = InitializeProcessors(steps_to_run, connectivity_ok)
  /\ batch_pc = "summary"
  /\ mode = "sequential"
  /\ n_jobs = 0
  /\ subject_ids = <<>>
  /\ next_subject = 1
  /\ worker = [w \in Workers |-> IdleWorker]
  /\ results_list = EmptyDict
  /\ all_results = EmptyDict
  /\ resolved = EmptyDict
  /\ done_items = EmptyDict
  /\ fs = {}
  /\ force_overwrite = FALSE
  /\ is_bids = TRUE
  /\ mdt_available = TRUE
  /\ run_no = 0
  /\ trunc = NotTruncated
  /\ calls = <<>>
  /\ skip_answer = NoAnswer
  /\ results_arg \in ResultCollections(steps_to_run)
  /\ summary = NoSummary
  /\ pool_request = NoRequest
  /\ dispatch_call = NoCall
  /\ dispatch_outcome = NoCall
  /\ NoCatalog

\* get_pipeline_summary(results)
SummaryCall ==
  /\ batch_pc = "summary"
  /\ batch_pc' = "summarized"
  /\ summary' = get_pipeline_summary(results_arg)
  /\ UNCHANGED <<config_vars, mode, n_jobs, subject_ids, next_subject, worker,
                 results_list, all_results, resolved, done_items, item_vars,
                 results_arg, pool_request, dispatch_call, dispatch_outcome, catalog_vars, step_call>>

NextSummary == SummaryCall

SpecSummary == InitSummary /\ [][NextSummary]_vars

(***************************************************************************)
(* The command dispatcher: utils/conda_utils.py and the run_command        *)
(* methods of BaseProcessor.  A command is a string or a list of tokens.   *)
(* A string is modelled by its pieces, a piece being a blank or a run of   *)
(* characters without blanks; shlex.split cuts it into words at the        *)
(* blanks.  The external process is the environment: it ends with an exit  *)
(* code, and its output either decodes as text or does not.                *)
(***************************************************************************)
TOOL_ENVIRONMENTS ==
  ("antsRegistrationSyNQuick.sh" :> "ants") @@
  ("ConvertTransformFile" :> "ants") @@
  ("antsRegistration" :> "ants") @@
  ("antsApplyTransforms" :> "ants") @@
  ("mrconvert" :> "subtract") @@
  ("dwi2response" :> "subtract") @@
  ("dwi2fod" :> "subtract") @@
  ("mrcat" :> "subtract") @@
  ("mtnormalise" :> "subtract") @@
  ("5ttgen" :> "subtract") @@
  ("dwiextract" :> "subtract") @@
  ("mrmath" :> "subtract") @@
  ("transformconvert" :> "subtract") @@
  ("mrtransform" :> "subtract") @@
  ("5tt2gmwmi" :> "subtract") @@
  ("dwidenoise" :> "subtract") @@
  ("tckgen" :> "subtract") @@
  ("tcksift2" :> "subtract") @@
  ("tck2connectome" :> "subtract") @@
  ("mdt" :> "mdt") @@
  ("mdt-create-protocol" :> "mdt") @@
  ("mdt-create-mask" :> "mdt") @@
  ("mdt-fit-model" :> "mdt") @@
  ("mdt-model-fit" :> "mdt") @@
  ("fslroi" :> "subtract") @@
  ("fslmerge" :> "subtract") @@
  ("fslmaths" :> "subtract") @@
  ("topup" :> "subtract") @@
  ("applytopup" :> "subtract") @@
  ("eddy" :> "subtract") @@
  ("eddy_cuda" :> "subtract") @@
  ("bet" :> "subtract") @@
  ("flirt" :> "subtract") @@
  ("fnirt" :> "subtract")

\* The calls made on the dispatcher, by entry point, with the parameters
\* each entry point takes.  The commands are built from the mapped tool
\* names, the two shells and names the table does not hold.  A command given
\* as a string may start with blanks, and an argument follows the tool name
\* after a blank or without one.
DispatchCalls ==
  LET ToolNames == DOMAIN TOOL_ENVIRONMENTS
                     \cup {"sh", "bash", "python", "/usr/bin/mrconvert"}
      StrCommands ==
        {[is_str |-> TRUE, body |-> lead \o <<t>> \o rest] :
           lead \in {<<>>, <<" ">>}, t \in ToolNames,
           rest \in {<<>>, <<" ">>, <<" ", "-force">>, <<"-force">>}}
        \cup {[is_str |-> TRUE, body |-> b] : b \in {<<>>, <<" ">>}}
      ListCommands ==
        {[is_str |-> FALSE, body |-> <<t>> \o rest] :
           t \in ToolNames, rest \in {<<>>, <<"-force">>}}
        \cup {[is_str |-> FALSE, body |-> <<>>]}
      Commands == StrCommands \cup ListCommands
  IN {[entry |-> "run_command", command |-> c, env_name |-> None,
       capture_output |-> co, use_conda |-> uc, check |-> TRUE] :
        c \in Commands, co \in BOOLEAN, uc \in BOOLEAN}
     \cup
     {[entry |-> "run_tool_command", command |-> c, env_name |-> None,
       capture_output |-> co, use_conda |-> TRUE, check |-> ch] :
        c \in Commands, co \in BOOLEAN, ch \in BOOLEAN}
     \cup
     {[entry |-> "run_in_conda_env", command |-> c, env_name |-> e,
       capture_output |-> co, use_conda |-> TRUE, check |-> ch] :
        c \in Commands, e \in {"subtract", "ants", "mdt"},
        co \in BOOLEAN, ch \in BOOLEAN}

\* shlex.split(s), from the word begun (cur) and the words cut so far (acc).
RECURSIVE shlex_split(_, _, _)
shlex_split(s, cur, acc) ==
  IF s = <<>>
  THEN IF cur = "" THEN acc ELSE Append(acc, cur)
  ELSE IF Head(s) = " "
       THEN shlex_split(Tail(s), "", IF cur = "" THEN acc ELSE Append(acc, cur))
       ELSE shlex_split(Tail(s), cur \o Head(s), acc)

\* The command as a list of tokens.
CommandList(command) ==
  IF command.is_str THEN shlex_split(command.body, "", <<>>)
  ELSE command.body

get_conda_command(command, env_name) ==
  <<"conda", "run", "-n", env_name, "--no-capture-output">>
    \o CommandList(command)

\* What a call ends in: the CompletedProcess it returns or the exception
\* it raises, with the attributes either holds.
Outcome(kind, exception, cmd, returncode, capture_output, env_name) ==
  [kind |-> kind, exception |-> exception, cmd |-> cmd,
   returncode |-> returncode,
   stdout |-> IF capture_output THEN "stdout" ELSE None,
   stderr |-> IF capture_output THEN "stderr" ELSE None,
   env_name |-> env_name]

\* subprocess.run(cmd, capture_output=capture_output, text=True, check=check):
\* an empty argument list has no program to start; captured output is
\* decoded as text, and bytes that do not decode raise UnicodeDecodeError
\* before the exit code is looked at; with check, a non-zero exit code
\* raises CalledProcessError, which holds cmd, returncode, stdout, stderr.
subprocess_run(cmd, capture_output, check, proc, env_name) ==
  IF cmd = <<>>
  THEN Outcome("raised", "IndexError", cmd, 0 - 1, FALSE, env_name)
  ELSE IF capture_output /\ ~proc.decodable
  THEN Outcome("raised", "UnicodeDecodeError", cmd, 0 - 1, FALSE, env_name)
  ELSE IF check /\ proc.exit_code # 0
  THEN Outcome("raised", "CalledProcessError", cmd, proc.exit_code,
               capture_output, env_name)
  ELSE Outcome("returned", None, cmd, proc.exit_code, capture_output,
               env_name)

run_in_conda_env(command, env_name, capture_output, check, proc) ==
  subprocess_run(get_conda_command(command, env_name), capture_output, check,
                 proc, env_name)

get_tool_environment_LastToken(command) ==
  LET words == CommandList(command)
      tool_name == words[Len(words)]
  IN IF words = <<>> THEN "IndexError"
     ELSE IF tool_name \in {"sh", "bash"} THEN "subtract"
     ELSE IF tool_name \in DOMAIN TOOL_ENVIRONMENTS
          THEN TOOL_ENVIRONMENTS[tool_name] ELSE "subtract"

\* The environment of a command, or "IndexError" where the command has no
\* first token to look at.
get_tool_environment(command) ==
  LET words == CommandList(command)
      tool_name == words[1]
  IN IF words = <<>> THEN "IndexError"
     ELSE IF tool_name \in {"sh", "bash"} THEN "subtract"
     ELSE IF tool_name \in DOMAIN TOOL_ENVIRONMENTS
          THEN TOOL_ENVIRONMENTS[tool_name] ELSE "subtract"

run_tool_command(command, capture_output, check, proc) ==
  LET env_name == get_tool_environment(command)
  IN IF env_name = "IndexError"
     THEN Outcome("raised", "IndexError", <<>>, 0 - 1, FALSE, None)
     ELSE run_in_conda_env(command, env_name, capture_output, check, proc)

\* BaseProcessor.run_command
run_command(command, capture_output, use_conda, proc) ==
  IF use_conda
  THEN run_tool_command(command, capture_output, TRUE, proc)
  ELSE subprocess_run(CommandList(command), capture_output, TRUE, proc, None)

InitDispatch ==
  /\ steps_to_run = <<>>
  /\ connectivity_ok = TRUE
  /\ processors = InitializeProcessors(steps_to_run, connectivity_ok)
  /\ batch_pc = "dispatch"
  /\ mode = "sequential"
  /\ n_jobs = 0
  /\ subject_ids = <<>>
  /\ next_subject = 1
  /\ worker = [w \in Workers |-> IdleWorker]
  /\ results_list = EmptyDict
  /\ all_results = EmptyDict
  /\ resolved = EmptyDict
  /\ done_items = EmptyDict
  /\ fs = {}
  /\ force_overwrite = FALSE
  /\ is_bids = TRUE
  /\ mdt_available = TRUE
  /\ run_no = 0
  /\ trunc = NotTruncated
  /\ calls = <<>>
  /\ skip_answer = NoAnswer
  /\ results_arg = EmptyDict
  /\ summary = NoSummary
  /\ pool_request = NoRequest
  /\ dispatch_call \in DispatchCalls
  /\ dispatch_outcome = NoCall
  /\ NoCatalog

\* One call of each entry point: the process it starts ends as proc says,
\* and proc is kept with the outcome.
RunCommand ==
  \E proc \in [exit_code : 0..MaxExit, decodable : BOOLEAN] :
    /\ batch_pc = "dispatch"
    /\ dispatch_call.entry = "run_command"
    /\ batch_pc' = "dispatched"
    /\ dispatch_outcome' =
         run_command(dispatch_call.command, dispatch_call.capture_output,
                     dispatch_call.use_conda, proc) @@ [proc |-> proc]
    /\ UNCHANGED <<config_vars, mode, n_jobs, subject_ids, next_subject,
                   worker, results_list, all_results, resolved, done_items,
                   item_vars, results_arg, summary, pool_request,
                   dispatch_call, catalog_vars, step_call>>

RunToolCommand ==
  \E proc \in [exit_code : 0..MaxExit, decodable : BOOLEAN] :
    /\ batch_pc = "dispatch"
    /\ dispatch_call.entry = "run_tool_command"
    /\ batch_pc' = "dispatched"
    /\ dispatch_outcome' =
         run_tool_command(dispatch_call.command,
                          dispatch_call.capture_output, dispatch_call.check,
                          proc) @@ [proc |-> proc]
    /\ UNCHANGED <<config_vars, mode, n_jobs, subject_ids, next_subject,
                   worker, results_list, all_results, resolved, done_items,
                   item_vars, results_arg, summary, pool_request,
                   dispatch_call, catalog_vars, step_call>>

RunInCondaEnv ==
  \E proc \in [exit_code : 0..MaxExit, decodable : BOOLEAN] :
    /\ batch_pc = "dispatch"
    /\ dispatch_call.entry = "run_in_conda_env"
    /\ batch_pc' = "dispatched"
    /\ dispatch_outcome' =
         run_in_conda_env(dispatch_call.command, dispatch_call.env_name,
                          dispatch_call.capture_output, dispatch_call.check,
                          proc) @@ [proc |-> proc]
    /\ UNCHANGED <<config_vars, mode, n_jobs, subject_ids, next_subject,
                   worker, results_list, all_results, resolved, done_items,
                   item_vars, results_arg, summary, pool_request,
                   dispatch_call, catalog_vars, step_call>>

NextDispatch ==
  \/ RunCommand
  \/ RunToolCommand
  \/ RunInCondaEnv

SpecDispatch == InitDispatch /\ [][NextDispatch]_vars

(***************************************************************************)
(* SubjectManager and BIDSLayout: the catalogue of the subjects of a       *)
(* dataset.  Names are strings; the root holds directories only, and the   *)
(* files of subject 01 are the paths of fs that start with data:.          *)
(***************************************************************************)
\* The characters of the names, in the order of their code points.
CodePoints ==
  "-.0123456789ABCDEFGHIJKLMNOPQRSTUVWXYZ_abcdefghijklmnopqrstuvwxyz"

\* sorted() on strings: the members of S in lexicographic order.
sorted(S) ==
  LET code(c) ==
        CHOOSE i \in 1..Len(CodePoints) : SubSeq(CodePoints, i, i) = c
      before(a, b) ==
        \E k \in 1..(Min(Len(a), Len(b)) + 1) :
          /\ SubSeq(a, 1, k - 1) = SubSeq(b, 1, k - 1)
          /\ k <= Len(b)
          /\ k <= Len(a) => code(SubSeq(a, k, k)) < code(SubSeq(b, k, k))
  IN CHOOSE q \in [1..Cardinality(S) -> S] :
       \A i, j \in 1..Cardinality(S) : i < j => before(q[i], q[j])

\* pattern.match(s), the pattern being literal alternatives that a $ closes
\* or not: match anchors at the start of s only.
re_match(pattern, s) ==
  \E a \in pattern.alternatives :
    /\ Len(a) <= Len(s)
    /\ SubSeq(s, 1, Len(a)) = a
    /\ pattern.dollar => Len(s) = Len(a)

\* The entries of a directory whose name starts with prefix, without it.
Stripped(names, prefix) ==
  {SubSeq(n, Len(prefix) + 1, Len(n)) :
     n \in {d \in names : /\ Len(d) >= Len(prefix)
                          /\ SubSeq(d, 1, Len(prefix)) = prefix}}

\* BIDSLayout.get_subjects
get_subjects(dataset, pattern) ==
  LET subjects == Stripped(dataset.names, "sub-")
  IN sorted(IF pattern # NoFilter
            THEN {s \in subjects : re_match(pattern, s)}
            ELSE subjects)

\* BIDSLayout.get_sessions
get_sessions(dataset, wanted, subject) ==
  IF ("sub-" \o subject) \notin dataset.names THEN <<>>
  ELSE LET sessions == Stripped(dataset.sessions, "ses-")
       IN sorted(IF wanted # {} THEN sessions \cap wanted ELSE sessions)

\* SubjectManager.__init__: BIDSLayout() raises when the root is missing
\* and only warns when dataset_description.json is; what it raises is
\* caught.
SubjectManager(dataset) ==
  LET layout == [raised |-> ~dataset.exists,
                 log |-> IF dataset.exists /\ ~dataset.marker
                         THEN "warning" ELSE None]
  IN IF dataset.exists /\ ~layout.raised
     THEN [kind |-> "returned", is_bids |-> TRUE, bids_layout |-> TRUE,
           log |-> layout.log]
     ELSE [kind |-> "returned", is_bids |-> FALSE, bids_layout |-> FALSE,
           log |-> IF dataset.exists THEN "warning" ELSE None]

\* discover_subjects without its test of the root.
discover_subjects_NoRootCheck(m, dataset, pattern) ==
  IF m.is_bids /\ m.bids_layout
  THEN [kind |-> "returned", value |-> get_subjects(dataset, pattern),
        log |-> "info"]
  ELSE IF ~dataset.exists
  THEN [kind |-> "raised", value |-> <<>>, log |-> None]
  ELSE LET subjects == {d \in dataset.names : SubSeq(d, 1, 1) # "."}
       IN [kind |-> "returned",
           value |-> sorted(IF pattern # NoFilter
                            THEN {s \in subjects : re_match(pattern, s)}
                            ELSE subjects),
           log |-> "info"]

\* SubjectManager.discover_subjects; iterdir() raises on a missing root.
discover_subjects(m, dataset, pattern) ==
  IF ~dataset.exists
  THEN [kind |-> "returned", value |-> <<>>, log |-> "error"]
  ELSE IF m.is_bids /\ m.bids_layout
  THEN [kind |-> "returned", value |-> get_subjects(dataset, pattern),
        log |-> "info"]
  ELSE IF ~dataset.exists
  THEN [kind |-> "raised", value |-> <<>>, log |-> None]
  ELSE LET subjects == {d \in dataset.names : SubSeq(d, 1, 1) # "."}
       IN [kind |-> "returned",
           value |-> sorted(IF pattern # NoFilter
                            THEN {s \in subjects : re_match(pattern, s)}
                            ELSE subjects),
           log |-> "info"]

\* SubjectManager.get_subject_sessions
get_subject_sessions(m, dataset, wanted, subject_id) ==
  IF m.is_bids /\ m.bids_layout
  THEN get_sessions(dataset, wanted, subject_id)
  ELSE <<>>

\* The anatomical image of subject 01 and its directory.
BidsAnat == {"data:sub-01/anat", "data:sub-01/anat/sub-01_T1w.nii.gz"}

\* BIDSLayout.validate_subject_data for subject 01 without session; the
\* phase-encoding groups are left out.
validate_subject_data(f) ==
  LET dwi_files == get_dwi_files(f)
      missing == {p \in dwi_files \X {".bval", ".bvec", ".json"} :
                    BidsFile(p[1], p[2]) \notin f}
  IN [valid |-> dwi_files # {},
      errors |-> IF dwi_files = {} THEN <<"No DWI files found">> ELSE <<>>,
      warnings |->
        {<<"Missing ", p[2], " file for ", BidsFile(p[1], ".nii")>> :
           p \in missing}
          \cup (IF BidsAnat \subseteq f THEN {}
                ELSE {<<"No anatomical files found">>}),
      dwi_files |-> dwi_files]

\* SubjectManager._validate_bids_subject
_validate_bids_subject(f) ==
  LET validation_result == validate_subject_data(f)
  IN [valid |-> validation_result.valid,
      errors |-> validation_result.errors,
      warnings |-> validation_result.warnings,
      dwi_files |-> Cardinality(validation_result.dwi_files),
      bval_files |->
        Cardinality({d \in validation_result.dwi_files :
                       BidsFile(d, ".bval") \in f}),
      bvec_files |->
        Cardinality({d \in validation_result.dwi_files :
                       BidsFile(d, ".bvec") \in f}),
      bids_compliant |-> TRUE]

\* SubjectManager._validate_legacy_subject for the flat subject 01, whose
\* directory holds at most the one image and no dwi directory.
_validate_legacy_subject(f) ==
  LET dwi_files == {p \in LegacySource \cap f : p # "data:01"}
  IN IF "data:01" \notin f
     THEN [valid |-> FALSE,
           errors |-> <<"Subject directory does not exist: ">>,
           warnings |-> {}, bids_compliant |-> FALSE]
     ELSE [valid |-> dwi_files # {},
           errors |-> IF dwi_files = {} THEN <<"No DWI files found">>
                      ELSE <<>>,
           warnings |->
             {<<"No 'dwi' subdirectory found">>}
               \cup (IF dwi_files = {} THEN {}
                     ELSE {<<"No .bval files found">>,
                           <<"No .bvec files found">>}),
           dwi_files |-> Cardinality(dwi_files),
           bids_compliant |-> FALSE]

\* SubjectManager.validate_subject
validate_subject(m, f) ==
  IF m.is_bids /\ m.bids_layout
  THEN _validate_bids_subject(f)
  ELSE _validate_legacy_subject(f)

\* The trees of subject 01: per acquisition no image, a .nii or a .nii.gz,
\* with none, two or three of its companion files.
SubjectTrees ==
  {UNION {IF pick[d].ext = None THEN {}
          ELSE {BidsDwiDir, BidsFile(d, pick[d].ext)}
                 \cup {BidsFile(d, e) : e \in pick[d].companions} :
            d \in Range(PEOrder)} \cup anat :
     pick \in [Range(PEOrder) ->
                 [ext : {None, ".nii", ".nii.gz"},
                  companions : {{}, {".bval", ".bvec"},
                                {".bval", ".bvec", ".json"}}]],
     anat \in {{}, BidsAnat}}

InitCatalog ==
  /\ steps_to_run = <<>>
  /\ connectivity_ok = TRUE
  /\ processors = InitializeProcessors(steps_to_run, connectivity_ok)
  /\ batch_pc = "catalog"
  /\ mode = "sequential"
  /\ n_jobs = 0
  /\ subject_ids = <<>>
  /\ next_subject = 1
  /\ worker = [w \in Workers |-> IdleWorker]
  /\ results_list = EmptyDict
  /\ all_results = EmptyDict
  /\ resolved = EmptyDict
  /\ done_items = EmptyDict
  /\ force_overwrite = FALSE
  /\ is_bids = TRUE
  /\ mdt_available = TRUE
  /\ run_no = 0
  /\ trunc = NotTruncated
  /\ calls = <<>>
  /\ skip_answer = NoAnswer
  /\ results_arg = EmptyDict
  /\ summary = NoSummary
  /\ pool_request = NoRequest
  /\ dispatch_call = NoCall
  /\ dispatch_outcome = NoCall
  /\ data_dir \in
       {NoDataset} \cup
       {[exists |-> TRUE, marker |-> marker, names |-> names,
         sessions |-> sessions] :
          marker \in BOOLEAN,
          names \in
            {n \in SUBSET {"sub-001", "sub-002", "sub-010", "sub-01", "001",
                           ".git", "derivatives"} :
               Cardinality(n) <= MaxDirs},
          sessions \in SUBSET {"ses-1", "ses-2", "dwi"}}
  /\ subject_filter \in
       {NoFilter, [alternatives |-> {"001", "002"}, dollar |-> TRUE],
        [alternatives |-> {"00"}, dollar |-> FALSE],
        [alternatives |-> {"01"}, dollar |-> FALSE]}
  /\ bids_sessions \in {{}, {"1"}}
  \* files of subject 01 only in a dataset of that one subject
  /\ fs \in
       (IF data_dir.names = {"sub-01"} /\ data_dir.sessions = {"dwi"}
           /\ subject_filter = NoFilter /\ bids_sessions = {}
        THEN SubjectTrees ELSE {{}})
  /\ manager = NoManager
  /\ catalog_answer = NoCall
  /\ step_call = NoStepCall

ConstructManager ==
  /\ manager = NoManager
  /\ manager' = SubjectManager(data_dir)
  /\ UNCHANGED <<config_vars, batch_vars, worker, item_vars, results_arg,
                 summary, pool_request, dispatch_call, dispatch_outcome,
                 data_dir, subject_filter, bids_sessions, catalog_answer,
                 step_call>>

DiscoverSubjects ==
  /\ manager.kind = "returned"
  /\ catalog_answer' =
       discover_subjects(manager, data_dir, subject_filter)
         @@ [entry |-> "discover_subjects"]
  /\ UNCHANGED <<config_vars, batch_vars, worker, item_vars, results_arg,
                 summary, pool_request, dispatch_call, dispatch_outcome,
                 data_dir, subject_filter, bids_sessions, manager,
                 step_call>>

GetSubjectSessions ==
  \E subject_id \in {"001", "01", "999"} :
    /\ manager.kind = "returned"
    /\ catalog_answer' =
         [entry |-> "get_subject_sessions", kind |-> "returned",
          subject_id |-> subject_id,
          value |-> get_subject_sessions(manager, data_dir, bids_sessions,
                                         subject_id)]
    /\ UNCHANGED <<config_vars, batch_vars, worker, item_vars, results_arg,
                   summary, pool_request, dispatch_call, dispatch_outcome,
                   data_dir, subject_filter, bids_sessions, manager,
                 step_call>>

ValidateSubject ==
  /\ manager.kind = "returned"
  /\ catalog_answer' =
       [entry |-> "validate_subject", kind |-> "returned",
        value |-> validate_subject(manager, fs)]
  /\ UNCHANGED <<config_vars, batch_vars, worker, item_vars, results_arg,
                 summary, pool_request, dispatch_call, dispatch_outcome,
                 data_dir, subject_filter, bids_sessions, manager,
                 step_call>>

NextCatalog ==
  \/ ConstructManager
  \/ DiscoverSubjects
  \/ GetSubjectSessions
  \/ ValidateSubject

SpecCatalog == InitCatalog /\ [][NextCatalog]_vars

(***************************************************************************)
(* run_step_for_subjects: one step for a list of subjects.                 *)
(***************************************************************************)
\* Variant of the except branch: the wall time is measured.
StepErrorResult_Timed(step_name, subject_id, text) ==
  [success |-> FALSE,
   execution_time |-> 1,
   error_message |->
     <<"Error in step ", step_name, " for subject ", subject_id, ": ", text>>]

\* The ProcessingResult run_step_for_subjects synthesizes in its except
\* branch.
StepErrorResult(step_name, subject_id, text) ==
  [success |-> FALSE,
   execution_time |-> 0,
   error_message |->
     <<"Error in step ", step_name, " for subject ", subject_id, ": ", text>>]

InitStep ==
  /\ steps_to_run \in SeqsUpTo(StepPool, MaxSteps)
  /\ connectivity_ok \in
       (IF "connectome" \in Range(steps_to_run) THEN BOOLEAN ELSE {TRUE})
  /\ processors = InitializeProcessors(steps_to_run, connectivity_ok)
  /\ batch_pc = "step"
  /\ mode = "sequential"
  /\ n_jobs = 0
  /\ subject_ids \in SeqsUpTo(SubjectPool, MaxSubjects)
  /\ next_subject = 1
  /\ worker = [w \in Workers |-> IdleWorker]
  /\ results_list = EmptyDict
  /\ all_results = EmptyDict
  /\ resolved = EmptyDict
  /\ done_items = EmptyDict
  /\ fs = {}
  /\ force_overwrite = FALSE
  /\ is_bids = TRUE
  /\ mdt_available = TRUE
  /\ run_no = 0
  /\ trunc = NotTruncated
  /\ calls = <<>>
  /\ skip_answer = NoAnswer
  /\ results_arg = EmptyDict
  /\ summary = NoSummary
  /\ pool_request = NoRequest
  /\ dispatch_call = NoCall
  /\ dispatch_outcome = NoCall
  /\ data_dir = NoDataset
  /\ subject_filter = NoFilter
  /\ bids_sessions = {}
  /\ manager = NoManager
  /\ catalog_answer = NoCall
  /\ step_call \in {[NoStepCall EXCEPT !.step_name = n] : n \in StepPool}

\* if step_name not in self.processors: raise ValueError
RunStepForSubjects ==
  /\ step_call.pc = "idle"
  /\ step_call' =
       [step_call EXCEPT !.pc = IF step_call.step_name \in processors
                               THEN "loop" ELSE "ValueError"]
  /\ UNCHANGED <<config_vars, batch_vars, worker, item_vars, results_arg,
                 summary, pool_request, dispatch_call, dispatch_outcome,
                 catalog_vars>>

\* One iteration of the loop: processor.process(subject_id) returns.
StepProcessReturns ==
  \E r \in ReturnedResults :
    /\ step_call.pc = "loop"
    /\ step_call.next <= Len(subject_ids)
    /\ step_call' =
         [step_call EXCEPT
            !.results = DictSet(@, subject_ids[step_call.next], r),
            !.processed = Append(@, [subject_id |-> subject_ids[step_call.next],
                                     raised |-> FALSE]),
            !.next = @ + 1]
    /\ UNCHANGED <<config_vars, batch_vars, worker, item_vars, results_arg,
                   summary, pool_request, dispatch_call, dispatch_outcome,
                   catalog_vars>>

\* One iteration of the loop: processor.process(subject_id) raises.
StepProcessRaises ==
  \E text \in ExceptionTexts :
    /\ step_call.pc = "loop"
    /\ step_call.next <= Len(subject_ids)
    /\ step_call' =
         [step_call EXCEPT
            !.results =
               DictSet(@, subject_ids[step_call.next],
                       StepErrorResult(step_call.step_name,
                                       subject_ids[step_call.next], text)),
            !.processed = Append(@, [subject_id |-> subject_ids[step_call.next],
                                     raised |-> TRUE]),
            !.next = @ + 1]
    /\ UNCHANGED <<config_vars, batch_vars, worker, item_vars, results_arg,
                   summary, pool_request, dispatch_call, dispatch_outcome,
                   catalog_vars>>

\* return results
StepReturns ==
  /\ step_call.pc = "loop"
  /\ step_call.next > Len(subject_ids)
  /\ step_call' = [step_call EXCEPT !.pc = "returned"]
  /\ UNCHANGED <<config_vars, batch_vars, worker, item_vars, results_arg,
                 summary, pool_request, dispatch_call, dispatch_outcome,
                 catalog_vars>>

NextStep ==
  \/ RunStepForSubjects
  \/ StepProcessReturns
  \/ StepProcessRaises
  \/ StepReturns

SpecStep == InitStep /\ [][NextStep]_vars

(***************************************************************************)
(* A batch run against a dataset on disk (the seventh specification,       *)
(* SpecSessions): the sessions of a subject are what the SubjectManager    *)
(* reads from the subject's directory under config.bids.sessions.          *)
(***************************************************************************)
InitSessions ==
  /\ steps_to_run \in SeqsUpTo(StepPool, MaxSteps)
  /\ connectivity_ok \in
       (IF "connectome" \in Range(steps_to_run) THEN BOOLEAN ELSE {TRUE})
  /\ processors = InitializeProcessors(steps_to_run, connectivity_ok)
  /\ batch_pc = "constructed"
  /\ mode = "sequential"
  /\ n_jobs = 0
  /\ subject_ids = <<>>
  /\ next_subject = 1
  /\ worker = [w \in Workers |-> IdleWorker]
  /\ results_list = EmptyDict
  /\ all_results = EmptyDict
  /\ resolved = EmptyDict
  /\ done_items = EmptyDict
  /\ fs = {}
  /\ force_overwrite = FALSE
  /\ is_bids = TRUE
  /\ mdt_available = TRUE
  /\ run_no = 0
  /\ trunc = NotTruncated
  /\ calls = <<>>
  /\ skip_answer = NoAnswer
  /\ results_arg = EmptyDict
  /\ summary = NoSummary
  /\ pool_request = NoRequest
  /\ dispatch_call = NoCall
  /\ dispatch_outcome = NoCall
  /\ step_call = NoStepCall
  \* one subject directory; what it holds stands in dataset.sessions
  /\ data_dir \in
       {[exists |-> TRUE, marker |-> TRUE, names |-> {"sub-01"},
         sessions |-> sessions] :
          sessions \in SUBSET {"ses-A", "ses-B", "dwi"}}
  /\ subject_filter = NoFilter
  \* --session-id of the command line: config.bids.sessions
  /\ bids_sessions \in {{}, {"A"}, {"C"}}
  /\ manager = NoManager
  /\ catalog_answer = NoCall

\* run_multiple_subjects on the dataset: each loop and each wrapper builds
\* a SubjectManager and asks it for the subject's sessions.
RunMultipleSubjectsOnDataset ==
  /\ batch_pc = "constructed"
  /\ \E ids \in SeqsUpTo({"01"}, MaxSubjects),
        parallel \in BOOLEAN,
        n_jobs_arg \in 1..MaxJobs :
       LET subject_manager == SubjectManager(data_dir)
           d == [s \in Range(ids) |->
                   [raised |-> FALSE,
                    sessions |-> get_subject_sessions(
                                   subject_manager, data_dir,
                                   bids_sessions, s)]]
       IN
       /\ TotalItems(ids, d, Len(ids)) <= MaxItems
       /\ subject_ids' = ids
       /\ manager' = subject_manager
       /\ resolved' = d
       /\ mode' = IF parallel THEN "parallel" ELSE "sequential"
       /\ n_jobs' = IF parallel THEN n_jobs_arg ELSE 0
       /\ batch_pc' = "running"
  /\ UNCHANGED <<config_vars, next_subject, worker, results_list, all_results,
                 done_items>>
  /\ UNCHANGED <<item_vars, results_arg, summary, pool_request, dispatch_call,
                 dispatch_outcome, data_dir, subject_filter, bids_sessions,
                 catalog_answer, step_call>>

NextSessions ==
  \/ RunMultipleSubjectsOnDataset
  \/ \E w \in Workers : StartSubject(w)
  \/ \E w \in Workers : SkipUnregistered(w)
  \/ \E w \in Workers : CallProcess(w)
  \/ \E w \in Workers : ProcessReturns(w)
  \/ \E w \in Workers : ProcessRaises(w)
  \/ \E w \in Workers : RunSubjectReturns(w)
  \/ BatchReturns

SpecSessions == InitSessions /\ [][NextSessions]_vars

(***************************************************************************)
(* Runs of run_subject: those in progress in a worker and those that have  *)
(* returned.  A run is its result dict, its event log and how it ended.    *)
(***************************************************************************)
Running == {w \in Workers : worker[w].pc \in {"loop", "in_step", "stopped"}}

Runs ==
  {[results |-> worker[w].results, log |-> worker[w].log,
    stopped |-> worker[w].stopped, terminal |-> ItemTerminal(w)] :
      w \in Running}
  \cup
  {[results |-> done_items[it].results, log |-> done_items[it].log,
    stopped |-> done_items[it].stopped, terminal |-> TRUE] :
      it \in DOMAIN done_items}

\* Positions of the configured list whose process was entered.
Called(log) == {log[k].pos : k \in {k \in DOMAIN log : log[k].ev = "call"}}

\* Names configured at positions 1..i.
NamesUpTo(i) == {steps_to_run[k] : k \in 1..i}

NSteps == Len(steps_to_run)

IsFailure(e) == e.ev \in {"return", "raise"} /\ ~e.success

(***************************************************************************)
(* C1.  Critical fail-fast: when a critical step (copy_data, denoise,      *)
(* eddy) returns success=False, nothing is executed after it, and no step  *)
(* configured later (one that had not already run before it) is in the     *)
(* item's result map.                                                      *)
(***************************************************************************)
C1_CriticalFailFast ==
  \A run \in Runs : \A k \in DOMAIN run.log :
    LET e == run.log[k] IN
    (e.ev = "return" /\ ~e.success /\ e.step \in {"copy_data", "denoise", "eddy"})
      => /\ k = Len(run.log)
         /\ run.stopped
         /\ \A j \in (e.pos + 1)..NSteps :
              steps_to_run[j] \notin NamesUpTo(e.pos)
                => steps_to_run[j] \notin DOMAIN run.results

\* A finished run in which a critical step failed and a registered step was
\* still configured after it.
C1_Witness ==
  \E it \in DOMAIN done_items :
    LET log == done_items[it].log IN
    /\ Len(log) > 0
    /\ log[Len(log)].ev = "return"
    /\ ~log[Len(log)].success
    /\ log[Len(log)].step = "denoise"
    /\ \E j \in (log[Len(log)].pos + 1)..NSteps :
         /\ steps_to_run[j] \in processors
         /\ steps_to_run[j] \notin NamesUpTo(log[Len(log)].pos)

(***************************************************************************)
(* C2.  Within one work item the steps run in the configured order: every  *)
(* executed step is the one configured at its position, a step is entered  *)
(* only after the previous one has returned (or raised), and of two        *)
(* executed steps the one entered first is the one configured first.       *)
(***************************************************************************)
C2_ConfiguredOrder ==
  \A run \in Runs :
    LET log == run.log IN
    /\ \A k \in DOMAIN log :
         /\ log[k].pos \in 1..NSteps
         /\ log[k].step = steps_to_run[log[k].pos]
         /\ (k % 2 = 1) =>
              /\ log[k].ev = "call"
              /\ k > 1 => log[k - 1].pos < log[k].pos
         /\ (k % 2 = 0) =>
              /\ log[k].ev \in {"return", "raise"}
              /\ log[k].pos = log[k - 1].pos
    /\ \A k1, k2 \in DOMAIN log :
         (log[k1].ev = "call" /\ log[k2].ev = "call")
           => ((k1 < k2) <=> (log[k1].pos < log[k2].pos))

\* A finished run that executed two different steps.
C2_Witness ==
  \E it \in DOMAIN done_items :
    LET log == done_items[it].log IN
    /\ Len(log) = 4
    /\ log[1].step # log[3].step

(***************************************************************************)
(* C3.  Non-critical continuation: when a non-critical step fails, the     *)
(* next configured step that has an implementation is still executed and   *)
(* is in the result map of the finished run.                               *)
(***************************************************************************)
C3_NonCriticalContinuation ==
  \A run \in Runs :
    run.terminal =>
      \A k \in DOMAIN run.log :
        LET e == run.log[k] IN
        (IsFailure(e) /\ e.step \notin {"copy_data", "denoise", "eddy"})
          => \A j \in (e.pos + 1)..NSteps :
               (/\ steps_to_run[j] \in processors
                /\ \A m \in (e.pos + 1)..(j - 1) : steps_to_run[m] \notin processors)
                 => /\ j \in Called(run.log)
                    /\ steps_to_run[j] \in DOMAIN run.results

\* A finished run in which topup returned a failure and the step after it
\* was executed.
C3_Witness ==
  \E it \in DOMAIN done_items :
    LET log == done_items[it].log IN
    /\ Len(log) = 4
    /\ log[2].ev = "return"
    /\ ~log[2].success
    /\ log[2].step = "topup"
    /\ log[3].step \in DOMAIN done_items[it].results

(***************************************************************************)
(* C4.  A step that raises is recorded under its name as a failed result   *)
(* with zero execution time and a message that carries the exception text; *)
(* the run then stops if the step is critical and goes on otherwise.       *)
(***************************************************************************)
C4_UnexpectedException ==
  \A run \in Runs : \A k \in DOMAIN run.log :
    LET e == run.log[k]
        last == \A m \in DOMAIN run.log : m > k => run.log[m].step # e.step
    IN
    e.ev = "raise" =>
      /\ ~e.success
      /\ e.step \in DOMAIN run.results
      /\ last =>
           /\ run.results[e.step].success = FALSE
           /\ run.results[e.step].execution_time = 0
           /\ run.results[e.step].error_message # NoMessage
           /\ \E t \in ExceptionTexts :
                t \in Range(run.results[e.step].error_message)
      /\ e.step \in {"copy_data", "denoise", "eddy"}
           => (k = Len(run.log) /\ run.stopped)
      /\ e.step \notin {"copy_data", "denoise", "eddy"}
           => (k = Len(run.log) => ~run.stopped)

\* A finished run in which a non-critical step raised and a later step ran,
\* and one in which a critical step raised.
C4_Witness ==
  \E it \in DOMAIN done_items :
    LET log == done_items[it].log IN
    /\ Len(log) = 4
    /\ log[2].ev = "raise"
    /\ log[2].step = "topup"
    /\ log[4].ev = "raise"
    /\ log[4].step = "denoise"

(***************************************************************************)
(* C5.  A configured name without a registered implementation is skipped:  *)
(* it is never executed, never in a result map, never the reason a run     *)
(* stops, and the registered steps after it are still executed.            *)
(***************************************************************************)
C5_UnregisteredTolerance ==
  \A run \in Runs :
    /\ \A j \in 1..NSteps :
         steps_to_run[j] \notin processors
           => /\ steps_to_run[j] \notin DOMAIN run.results
              /\ j \notin Called(run.log)
    /\ \A k \in DOMAIN run.log : run.log[k].step \in processors
    /\ run.stopped =>
         /\ Len(run.log) > 0
         /\ IsFailure(run.log[Len(run.log)])
         /\ run.log[Len(run.log)].step \in {"copy_data", "denoise", "eddy"}
    /\ (run.terminal /\ ~run.stopped) =>
         \A j \in 1..NSteps :
           steps_to_run[j] \in processors => j \in Called(run.log)

\* A finished run whose first configured name was unregistered and whose
\* second step was executed.
C5_Witness ==
  \E it \in DOMAIN done_items :
    /\ NSteps = 2
    /\ steps_to_run[1] \notin processors
    /\ 2 \in Called(done_items[it].log)
    /\ DOMAIN done_items[it].results = {steps_to_run[2]}

(***************************************************************************)
(* C6.  A failure in one work item never aborts the batch: when            *)
(* run_multiple_subjects has returned, every work item of every subject    *)
(* whose sessions could be resolved was run to the end of its own step     *)
(* sequence and has an entry under its key; where no other entry of the    *)
(* batch uses that key, the entry is what run_subject returned for it.     *)
(***************************************************************************)
ItemsOf(i) ==
  LET o == resolved[subject_ids[i]] IN
  IF o.raised THEN {}
  ELSE IF Len(o.sessions) = 0 THEN {<<i, None>>}
  ELSE {<<i, o.sessions[k]>> : k \in DOMAIN o.sessions}

BatchItems == UNION {ItemsOf(i) : i \in 1..Len(subject_ids)}

KeyOfItem(it) == ResultKey(subject_ids[it[1]], it[2])

\* Keys written by the error branch of the sequential loop.
ErrorKeys ==
  {subject_ids[i] : i \in {i \in 1..Len(subject_ids) :
                             resolved[subject_ids[i]].raised}}

KeyIsOwn(it) ==
  /\ \A other \in BatchItems : other # it => KeyOfItem(other) # KeyOfItem(it)
  /\ KeyOfItem(it) \notin ErrorKeys

C6_FailureDoesNotAbortBatch ==
  batch_pc = "returned" =>
    \A it \in BatchItems :
      /\ it \in DOMAIN done_items
      /\ KeyOfItem(it) \in DOMAIN all_results
      /\ KeyIsOwn(it) => all_results[KeyOfItem(it)] = done_items[it].results

\* A returned batch in which the first subject's item was stopped by a
\* critical failure and the second subject's item has step results of its
\* own; and one in which the first subject could not be resolved at all.
C6_Witness ==
  /\ batch_pc = "returned"
  /\ Len(subject_ids) = 2
  /\ \E it1 \in ItemsOf(1), it2 \in ItemsOf(2) :
       /\ done_items[it1].stopped
       /\ KeyIsOwn(it2)
       /\ DOMAIN all_results[KeyOfItem(it2)] # {}

(***************************************************************************)
(* C7.  The batch always completes: run_multiple_subjects never raises.    *)
(***************************************************************************)
C7_BatchNeverRaises == batch_pc # "raised"

(***************************************************************************)
(* C8.  Idempotence: whenever the runner reaches a step whose expected     *)
(* outputs all exist and force-overwrite is unset, should_skip answers     *)
(* True for the step and the call the runner makes starts no external      *)
(* command.                                                                *)
(***************************************************************************)
C8_Idempotence ==
  \A i \in DOMAIN calls :
    LET c == calls[i] IN
    (c.outputs_existed /\ ~force_overwrite)
      => (c.should_skip /\ c.commands = {})

C10_Resumability ==
  (trunc # NotTruncated /\ ~force_overwrite) =>
    /\ \A i \in DOMAIN calls :
         LET c == calls[i] IN
         (c.run = 2 /\ c.pos <= trunc /\ c.outputs_existed)
           => c.commands = {}
    /\ (run_no = 2 /\ ItemTerminal(1)) =>
         \A pos \in (trunc + 1)..Len(steps_to_run) :
           steps_to_run[pos] \in processors =>
             \E i \in DOMAIN calls : calls[i].run = 2 /\ calls[i].pos = pos
(***************************************************************************)
(* C11.  Force-overwrite is one switch for all steps: when it is set, no   *)
(* call of any step returns through a skip-on-existing-output branch, and  *)
(* the steps that test their outputs (denoise, degibbs, eddy, mrtrix_prep, *)
(* tractography) start their commands again whenever the call succeeds.    *)
(***************************************************************************)
C11_ForceOverwrite ==
  force_overwrite =>
    \A i \in DOMAIN calls : LET c == calls[i] IN
      /\ ~c.skipped
      /\ (c.success /\ c.step \in {"denoise", "degibbs", "eddy", "mrtrix_prep",
                                    "tractography"})
           => c.commands # {}

\* Force-overwrite set, a step found all its expected outputs in place and
\* started its commands all the same.
C11_Witness ==
  /\ force_overwrite
  /\ \E i \in DOMAIN calls :
       /\ calls[i].outputs_existed
       /\ calls[i].success
       /\ calls[i].step \in {"denoise", "eddy", "mrtrix_prep", "tractography"}
       /\ calls[i].commands # {}

(***************************************************************************)
(* C12.  In the summary, total_subjects is the number of entries of the    *)
(* collection; an entry counts as successful exactly when every result     *)
(* recorded in it has success=True (an entry without results counts as     *)
(* successful), every other entry counts as failed, and the two counts add *)
(* up to the total.                                                        *)
(***************************************************************************)
AllSucceeded(subject_results) ==
  \A n \in DOMAIN subject_results : subject_results[n].success

C12_SubjectCounts ==
  summary # NoSummary =>
    /\ summary.total_subjects = Cardinality(DOMAIN results_arg)
    /\ summary.successful_subjects =
         Cardinality({k \in DOMAIN results_arg : AllSucceeded(results_arg[k])})
    /\ summary.failed_subjects =
         Cardinality({k \in DOMAIN results_arg : ~AllSucceeded(results_arg[k])})
    /\ summary.successful_subjects + summary.failed_subjects
         = summary.total_subjects

\* A batch was summarized that holds an entry without results, counted as
\* successful, next to a failed entry.
C12_Witness ==
  /\ batch_pc = "summarized"
  /\ summary # NoSummary
  /\ \E k \in DOMAIN results_arg : results_arg[k] = EmptyDict
  /\ summary.successful_subjects = 1
  /\ summary.failed_subjects = 1

(***************************************************************************)
(* C13.  The success rate of a step is its successful results over its     *)
(* attempts, an attempt being an entry whose result map holds the step;    *)
(* a step no entry holds has no rate.  For an entry with four successful   *)
(* steps and one with a critical failure on the second of four steps the   *)
(* summary says total 2, successful 1, failed 1, and the third and fourth  *)
(* step have one attempt each.                                             *)
(***************************************************************************)
Attempts(step_name) ==
  {k \in DOMAIN results_arg : step_name \in DOMAIN results_arg[k]}

Successes(step_name) ==
  {k \in Attempts(step_name) : results_arg[k][step_name].success}

\* The entries are one item with all of the configured steps successful
\* and one item with a failed critical step at the second position.
AggregationExample ==
  /\ Len(steps_to_run) = 4
  /\ Cardinality(DOMAIN results_arg) = 2
  /\ \E a, b \in DOMAIN results_arg :
       /\ a # b
       /\ DOMAIN results_arg[a] = Range(steps_to_run)
       /\ AllSucceeded(results_arg[a])
       /\ DOMAIN results_arg[b] = {steps_to_run[1], steps_to_run[2]}
       /\ results_arg[b][steps_to_run[1]].success
       /\ ~results_arg[b][steps_to_run[2]].success
       /\ IsCriticalStep(steps_to_run[2])

C13_StepSuccessRates ==
  summary # NoSummary =>
    /\ DOMAIN summary.step_success_rates =
         {n \in UNION {DOMAIN results_arg[k] : k \in DOMAIN results_arg} :
            Attempts(n) # {}}
    /\ \A n \in DOMAIN summary.step_success_rates :
         summary.step_success_rates[n] =
           <<Cardinality(Successes(n)), Cardinality(Attempts(n))>>
    /\ AggregationExample =>
         /\ summary.total_subjects = 2
         /\ summary.successful_subjects = 1
         /\ summary.failed_subjects = 1
         /\ summary.step_success_rates[steps_to_run[3]][2] = 1
         /\ summary.step_success_rates[steps_to_run[4]][2] = 1

\* The example batch was summarized.
C13_Witness ==
  /\ summary # NoSummary
  /\ AggregationExample
  /\ summary.step_success_rates[steps_to_run[2]] = <<1, 2>>

(***************************************************************************)
(* C14.  A batch run in parallel mode returns a collection with the same   *)
(* keys and the same summary as the sequential loop does for the same      *)
(* subjects, sessions, step results and errors.                            *)
(***************************************************************************)
RECURSIVE SequentialResults(_, _, _, _)
\* What _run_subjects_sequential builds for the first n subjects, given
\* what the session lookup does (d) and what run_subject returned per item.
SequentialResults(ids, d, items, n) ==
  IF n = 0 THEN EmptyDict
  ELSE LET prev == SequentialResults(ids, d, items, n - 1)
           s == ids[n]
           o == d[s]
       IN IF o.raised THEN DictSet(prev, s, EmptyDict)
          ELSE IF Len(o.sessions) = 0
            THEN DictSet(prev, s, items[<<n, None>>].results)
          ELSE DictUpdate(prev,
                 [key \in {ResultKey(s, x) : x \in Range(o.sessions)} |->
                    items[<<n, CHOOSE x \in Range(o.sessions) :
                                 ResultKey(s, x) = key>>].results])

C14_AggregationEquivalence ==
  batch_pc \in {"returned", "summarized"} =>
    LET sequential == SequentialResults(subject_ids, resolved, done_items,
                                        Len(subject_ids))
    IN /\ DOMAIN all_results = DOMAIN sequential
       /\ get_pipeline_summary(all_results) = get_pipeline_summary(sequential)

(***************************************************************************)
(* C15.  When the batch has returned, a subject with sessions has been run *)
(* as exactly one item per session, each once, through the whole step      *)
(* sequence (up to a critical failure) and filed under the key             *)
(* "<subject>_ses-<session>"; a subject without sessions has been run as   *)
(* exactly one item, once, filed under the subject id.                     *)
(***************************************************************************)
RanOf(i) == {it \in DOMAIN done_items : it[1] = i}

CalledPositions(it) ==
  {done_items[it].log[j].pos :
     j \in {j \in DOMAIN done_items[it].log :
              done_items[it].log[j].ev = "call"}}

C15_SessionExpansion ==
  batch_pc \in {"returned", "summarized"} =>
    \A i \in 1..Len(subject_ids) :
      LET s == subject_ids[i]
          o == resolved[s]
      IN ~o.raised =>
         /\ RanOf(i) = IF Len(o.sessions) = 0 THEN {<<i, None>>}
                       ELSE {<<i, x>> : x \in Range(o.sessions)}
         /\ \A it \in RanOf(i) :
              LET key == IF it[2] = None THEN s ELSE s \o "_ses-" \o it[2] IN
              /\ done_items[it].runs = 1
              /\ done_items[it].stopped
                   \/ CalledPositions(it) =
                        {p \in 1..Len(steps_to_run) :
                           steps_to_run[p] \in processors}
              /\ key \in DOMAIN all_results
              /\ KeyIsOwn(it) => all_results[key] = done_items[it].results

\* A returned batch of one subject with two sessions: two entries, keyed
\* by subject and session, each with step results.
C15_Witness ==
  /\ batch_pc = "returned"
  /\ Len(subject_ids) = 1
  /\ Len(resolved[subject_ids[1]].sessions) = 2
  /\ DOMAIN all_results =
       {subject_ids[1] \o "_ses-A", subject_ids[1] \o "_ses-B"}
  /\ \A k \in DOMAIN all_results : DOMAIN all_results[k] # {}

(***************************************************************************)
(* C16.  In parallel mode, when the caller gives no job count, the size of *)
(* the worker pool is the smaller of the configured thread count and the   *)
(* number of work items of the batch, and it is at least 1 for every batch *)
(* that is not rejected.                                                   *)
(***************************************************************************)
C16_PoolSize ==
  (mode = "parallel" /\ pool_request.defaulted /\ batch_pc # "raised") =>
    /\ n_jobs = Min(pool_request.n_threads, Cardinality(BatchItems))
    /\ n_jobs >= 1

C18_FailuresAbsorbed ==
  \A i \in DOMAIN calls :
    LET c == calls[i] IN
    (~c.ok /\ c.commands # {}) =>
      (~c.success /\ c.error_message # NoMessage)

(***************************************************************************)
(* C19  Whenever a command run through the dispatcher with checking on     *)
(* has exited, the call returned a completed-process record if the exit    *)
(* code was zero, and otherwise raised CalledProcessError holding the      *)
(* command among the tokens run, the exit code and, where output was       *)
(* captured, the captured stderr; it did not return on a non-zero exit     *)
(* code.  The process has exited unless no program could be started.       *)
(***************************************************************************)
C19_RunRaisesOnNonZero ==
  (/\ dispatch_outcome # NoCall
   /\ dispatch_call.check
   /\ dispatch_outcome.exception # "IndexError") =>
    LET o == dispatch_outcome
        given == CommandList(dispatch_call.command)
    IN IF o.proc.exit_code = 0
       THEN o.kind = "returned" /\ o.returncode = 0
       ELSE /\ o.kind = "raised"
            /\ o.exception = "CalledProcessError"
            /\ o.returncode = o.proc.exit_code
            /\ Len(o.cmd) >= Len(given)
            /\ SubSeq(o.cmd, Len(o.cmd) - Len(given) + 1, Len(o.cmd)) = given
            /\ (dispatch_call.capture_output => o.stderr = "stderr")

(***************************************************************************)
(* C20  Whenever run_tool_command or run_command with use_conda has        *)
(* routed a command that has a first token, given as a string or as a      *)
(* list, the environment it ran the command in is the one of that token:   *)
(* "ants" for the ANTs tools, "mdt" for the MDT tools, and "subtract" for  *)
(* the MRtrix3 and FSL tools, for sh and bash and for every name the table *)
(* does not hold.  The arguments, the form of the command, the other       *)
(* parameters of the call and what the process did play no part.           *)
(***************************************************************************)
C20_StaticRouting ==
  (/\ dispatch_outcome # NoCall
   /\ dispatch_call.entry \in {"run_tool_command", "run_command"}
   /\ dispatch_call.use_conda
   /\ \E i \in DOMAIN dispatch_call.command.body :
        dispatch_call.command.body[i] # " ") =>
    LET body == dispatch_call.command.body
        first == CHOOSE i \in DOMAIN body :
                   body[i] # " " /\ \A j \in 1..(i - 1) : body[j] = " "
        glued == dispatch_call.command.is_str /\ first < Len(body)
                   /\ body[first + 1] # " "
        tool_name == IF glued THEN body[first] \o body[first + 1]
                     ELSE body[first]
    IN dispatch_outcome.env_name =
         IF tool_name \in {"antsRegistrationSyNQuick.sh", "ConvertTransformFile",
                           "antsRegistration", "antsApplyTransforms"}
         THEN "ants"
         ELSE IF tool_name \in {"mdt", "mdt-create-protocol", "mdt-create-mask",
                                "mdt-fit-model", "mdt-model-fit"}
         THEN "mdt"
         ELSE "subtract"

\* An ANTs tool given as a string with leading blanks and an argument was
\* run in the "ants" environment.
C20_Witness ==
  /\ dispatch_outcome # NoCall
  /\ dispatch_call.entry = "run_tool_command"
  /\ dispatch_call.command =
       [is_str |-> TRUE,
        body |-> <<" ", "antsApplyTransforms", " ", "-force">>]
  /\ dispatch_outcome.env_name = "ants"
  /\ dispatch_outcome.cmd[4] = "ants"

(***************************************************************************)
(* C28  A run of run_subject that has ended is in one of two states:       *)
(* either it was not cut short, and every configured step that is          *)
(* registered was executed and has an entry in the result map; or it was   *)
(* cut short, and the last thing recorded is a failure (a failed result    *)
(* or an exception) of copy_data, denoise or eddy.  A step that returned   *)
(* success is never the last thing recorded in a run that was cut short.   *)
(***************************************************************************)
C28_TerminalStates ==
  \A run \in Runs :
    run.terminal =>
      LET log == run.log IN
      /\ \/ /\ ~run.stopped
            /\ \A j \in 1..NSteps :
                 steps_to_run[j] \in processors
                   => /\ j \in Called(log)
                      /\ steps_to_run[j] \in DOMAIN run.results
         \/ /\ run.stopped
            /\ Len(log) > 0
            /\ IsFailure(log[Len(log)])
            /\ log[Len(log)].step \in {"copy_data", "denoise", "eddy"}
            /\ ~run.results[log[Len(log)].step].success
      /\ (Len(log) > 0 /\ log[Len(log)].success) => ~run.stopped

\* Two finished runs of one batch: one cut short by a failed denoise with a
\* registered step still to come, one that went through all its steps
\* although one of them failed.
C28_Witness ==
  \E a, b \in DOMAIN done_items :
    /\ done_items[a].stopped
    /\ \E j \in 1..NSteps :
         steps_to_run[j] \in processors /\ j \notin Called(done_items[a].log)
    /\ ~done_items[b].stopped
    /\ \E k \in DOMAIN done_items[b].log : IsFailure(done_items[b].log[k])

(***************************************************************************)
(* C29  The registry never changes after construction, and at every moment *)
(* it holds exactly this: every registered name is in the configured list; *)
(* every configured name that has a class (connectome: only when its       *)
(* class could be imported) is registered; a configured name without a     *)
(* class is not registered, and the runner was constructed all the same.   *)
(***************************************************************************)
C29_Registry ==
  /\ \A n \in processors : n \in Range(steps_to_run)
  /\ \A j \in 1..NSteps :
       LET n == steps_to_run[j] IN
       /\ (n \in {"copy_data", "denoise", "degibbs", "topup", "eddy", "mdt",
                   "mrtrix_prep", "tractography", "sift2", "roi_registration"})
            => n \in processors
       /\ (n = "connectome") => (n \in processors <=> connectivity_ok)
       /\ (n = "qc_report") => n \notin processors

\* A batch has returned on a runner configured with a name that has no
\* class and a step that has one, and one class was never configured.
C29_Witness ==
  /\ batch_pc = "returned"
  /\ "qc_report" \in Range(steps_to_run)
  /\ "denoise" \in processors
  /\ "topup" \notin Range(steps_to_run)
  /\ DOMAIN done_items # {}

(***************************************************************************)
(* C22  Whenever a step was asked for its expected outputs, what it        *)
(* answered for the work item is what it answers for the same item on any  *)
(* other file tree: on an empty disk and on each tree an earlier run of    *)
(* the step or of its predecessor leaves.                                  *)
(***************************************************************************)
C22_ExpectedOutputsPure ==
  skip_answer.step # None =>
    \A g \in {{}} \cup Seeds(skip_answer.step) :
      get_expected_outputs(skip_answer.step, g) = skip_answer.expected

(***************************************************************************)
(* C21  Within one run, when mdt, mrtrix_prep or tractography has          *)
(* succeeded and the next step of the chain (mrtrix_prep, tractography,    *)
(* sift2) is called right after it, that step does not fail for want of    *)
(* its input files.  For tractography the ROI templates of the             *)
(* installation, which no step produces, are taken to be there.            *)
(***************************************************************************)
C21_OutputContract ==
  \A i \in DOMAIN calls :
    (/\ i > 1
     /\ calls[i - 1].run = calls[i].run
     /\ <<calls[i - 1].step, calls[i].step>> \in
          {<<"mdt", "mrtrix_prep">>, <<"mrtrix_prep", "tractography">>,
           <<"tractography", "sift2">>}
     /\ calls[i - 1].success
     /\ calls[i].step = "tractography" =>
          \A h \in Range(Hemispheres) : BnstRoiSource(h) \in fs)
      => LET message == calls[i].error_message IN
         ~(/\ message # NoMessage
           /\ \/ message[1] = "Prerequisites not met for subject "
              \/ message[Len(message)] \in
                   {"Required input file not found",
                    "Missing prerequisite files for SIFT2 filtering"})

C30_TractographyOutputs ==
  skip_answer.step = "tractography" =>
    /\ Len(skip_answer.expected) = 6
    /\ Range(skip_answer.expected) =
         In("dwi/mrtrix3",
            {"L_bnst_DWI.nii.gz", "R_bnst_DWI.nii.gz", "L_bnst_DWI.mif",
             "R_bnst_DWI.mif", "tracks_5M_BNST_L.tck", "tracks_5M_BNST_R.tck"})

\* The tractography step was asked while nothing was on disk.
C30_Witness ==
  /\ skip_answer.step = "tractography"
  /\ skip_answer.present = {}
  /\ fs = {}
  /\ Len(skip_answer.expected) = 6

(***************************************************************************)
(* C24  discover_subjects returns the identifiers of the dataset in        *)
(* lexicographic order, each once; with a subject filter, those and only   *)
(* those that the pattern matches in full: an identifier of which the      *)
(* pattern matches a prefix only is dropped.                               *)
(***************************************************************************)
C24_Discovery ==
  (catalog_answer.entry = "discover_subjects" /\ data_dir.exists) =>
    LET found == IF manager.is_bids THEN Stripped(data_dir.names, "sub-")
                 ELSE {d \in data_dir.names : SubSeq(d, 1, 1) # "."}
        kept == IF subject_filter = NoFilter THEN found
                ELSE found \cap subject_filter.alternatives
    IN /\ catalog_answer.kind = "returned"
       /\ catalog_answer.value = sorted(kept)

(***************************************************************************)
(* C25  When the dataset root does not exist, constructing the manager     *)
(* returns, discover_subjects returns the empty list and logs an error,    *)
(* and get_subject_sessions returns the empty list for any subject.        *)
(***************************************************************************)
C25_MissingRoot ==
  (~data_dir.exists /\ manager # NoManager) =>
    /\ manager.kind = "returned"
    /\ catalog_answer.entry = "discover_subjects" =>
         /\ catalog_answer.kind = "returned"
         /\ catalog_answer.value = <<>>
         /\ catalog_answer.log = "error"
    /\ catalog_answer.entry = "get_subject_sessions" =>
         /\ catalog_answer.kind = "returned"
         /\ catalog_answer.value = <<>>

\* discover_subjects has answered on a dataset root that is not there.
C25_Witness ==
  /\ ~data_dir.exists
  /\ manager.kind = "returned"
  /\ catalog_answer.entry = "discover_subjects"
  /\ catalog_answer.log = "error"

(***************************************************************************)
(* C26  The manager takes the dataset as hierarchical (is_bids) exactly    *)
(* when the layout marker, dataset_description.json, is at the root, and   *)
(* validates a subject the flat way when it is not.                        *)
(***************************************************************************)
C26_LayoutProbe ==
  manager # NoManager =>
    /\ manager.is_bids <=> data_dir.marker
    /\ catalog_answer.entry = "validate_subject" =>
         (catalog_answer.value.bids_compliant <=> data_dir.marker)

(***************************************************************************)
(* C27  validate_subject on the hierarchical layout: when the subject has  *)
(* a DWI image, .nii or .nii.gz, the record is valid and every companion   *)
(* (.bval, .bvec, .json) that is missing is named in a warning; when it    *)
(* has none, the record carries an error and is not valid; and the record  *)
(* is valid exactly when it carries no error.                              *)
(***************************************************************************)
C27_Validation ==
  (catalog_answer.entry = "validate_subject" /\ manager.is_bids) =>
    LET record == catalog_answer.value
        images == {p \in Range(PEOrder) \X {".nii", ".nii.gz"} :
                     BidsFile(p[1], p[2]) \in fs}
    IN /\ record.valid <=> record.errors = <<>>
       /\ images = {} => ~record.valid
       /\ images # {} =>
            /\ record.valid
            /\ \A p \in images, e \in {".bval", ".bvec", ".json"} :
                 BidsFile(p[1], e) \notin fs =>
                   \E w \in record.warnings : Len(w) > 1 /\ w[2] = e

(***************************************************************************)
(* C31  A call of the denoising step succeeds exactly when the files it    *)
(* denoised and the files it skipped, their output being in place, are     *)
(* together at least one; so a call in which dwidenoise failed on a file   *)
(* still succeeds when another file was skipped or denoised.               *)
(***************************************************************************)
C31_DenoiseSuccess ==
  \A i \in DOMAIN calls :
    calls[i].step = "denoise" =>
      LET metrics == calls[i].metrics
          handled == IF "files_processed" \in DOMAIN metrics
                     THEN metrics.files_processed + metrics.files_skipped
                     ELSE 0
      IN calls[i].success <=> handled > 0

\* dwidenoise failed on one image while the output of the other was in
\* place, and the call succeeded.
C31_Witness ==
  \E i \in DOMAIN calls :
    /\ calls[i].step = "denoise"
    /\ ~calls[i].ok
    /\ calls[i].commands = {"dwidenoise"}
    /\ "files_skipped" \in DOMAIN calls[i].metrics
    /\ calls[i].metrics.files_skipped = 1
    /\ calls[i].metrics.files_processed = 0
    /\ calls[i].success

(***************************************************************************)
(* C32  run_step_for_subjects raises ValueError, no subject having been    *)
(* processed, exactly when the step has no registered processor.  When it  *)
(* returns, every given subject was processed and the map has one result   *)
(* per given subject id; a subject whose processing raised has a failed    *)
(* result with zero execution time and a message, and the subjects after   *)
(* it were processed all the same.                                         *)
(***************************************************************************)
C32_RunStep ==
  LET call == step_call
      last(i) == \A j \in DOMAIN call.processed :
                   call.processed[j].subject_id = call.processed[i].subject_id
                     => j <= i
  IN /\ call.step_name \notin processors =>
          /\ call.pc \in {"idle", "ValueError"}
          /\ call.processed = <<>>
     /\ call.pc = "ValueError" => call.step_name \notin processors
     /\ call.pc = "returned" =>
          /\ DOMAIN call.results = Range(subject_ids)
          /\ Len(call.processed) = Len(subject_ids)
          /\ \A i \in DOMAIN call.processed :
               call.processed[i].subject_id = subject_ids[i]
     /\ \A i \in DOMAIN call.processed :
          (call.processed[i].raised /\ last(i)) =>
            LET result == call.results[call.processed[i].subject_id]
            IN /\ ~result.success
               /\ result.execution_time = 0
               /\ result.error_message # NoMessage

\* The call has returned after processing raised for the first of two
\* subjects and returned for the second.
C32_Witness ==
  /\ step_call.pc = "returned"
  /\ Len(step_call.processed) = 2
  /\ step_call.processed[1].raised
  /\ ~step_call.processed[2].raised
  /\ subject_ids[1] # subject_ids[2]
  /\ step_call.results[subject_ids[2]].success

\* The call has raised ValueError for a step that is configured but has no
\* implementation.
C32_WitnessValueError ==
  /\ step_call.pc = "ValueError"
  /\ step_call.step_name \in Range(steps_to_run)
  /\ Len(subject_ids) > 0

(***************************************************************************)
(* C33  Without force-overwrite, once process has returned success for a   *)
(* step, every path the step lists as expected output exists on the tree   *)
(* the call left, and should_skip answers True on it.                      *)
(***************************************************************************)
C33_SuccessMeansOutputs ==
  (calls # <<>> /\ ~force_overwrite /\ calls[Len(calls)].success) =>
    LET step_name == calls[Len(calls)].step
    IN /\ AllExist(get_expected_outputs(step_name, fs), fs)
       /\ should_skip(step_name, fs, force_overwrite)

(***************************************************************************)
(* C34  A call of one step removes no expected output of another step:     *)
(* of the paths that are gone from the tree once the call is over, none    *)
(* is listed by a step other than the one that ran.                        *)
(***************************************************************************)
C34_OtherOutputsKept ==
  calls # <<>> =>
    LET call == calls[Len(calls)]
        removed == call.written \ fs
    IN \A t \in Range(PipelineOrder) \ {call.step} :
         removed \cap Range(get_expected_outputs(t, fs \cup removed)) = {}


(***************************************************************************)
(* C35.  In the collection run_multiple_subjects returns, distinct work    *)
(* items have distinct keys, so no entry is overwritten: the number of     *)
(* entries is the number of (subject, session) work items that were        *)
(* processed, whatever the subject ids and session ids are.                *)
(***************************************************************************)
C35_DistinctKeys ==
  batch_pc = "returned" =>
    /\ \A it \in DOMAIN done_items, other \in DOMAIN done_items :
         other # it => KeyOfItem(other) # KeyOfItem(it)
    /\ Cardinality(DOMAIN all_results) = Cardinality(DOMAIN done_items)


(***************************************************************************)
(* C36.  A subject whose dataset directory holds session directories is    *)
(* never processed as a work item without session: also when the           *)
(* configured session filter excludes every one of its sessions, no step   *)
(* is run for the subject with session_id absent.                          *)
(***************************************************************************)
C36_NoSessionlessRun ==
  \A w \in Workers :
    (/\ worker[w].pc = "in_step"
     /\ ("sub-" \o CurSubject(w)) \in data_dir.names
     /\ Stripped(data_dir.sessions, "ses-") # {})
      => CurSession(w) # None


(***************************************************************************)
(* C37.  A subject whose processing raised an error outside step           *)
(* execution during a batch run (as when its sessions are resolved) is     *)
(* never counted among successful_subjects by get_pipeline_summary, and    *)
(* the results obtained for its earlier sessions are kept in the returned  *)
(* collection.                                                             *)
(***************************************************************************)
C37_ErrorNotSuccessful ==
  batch_pc = "summarized" =>
    LET errored == {i \in 1..Len(subject_ids) :
                      resolved[subject_ids[i]].raised}
        \* entries that stand for an errored subject and for nothing else
        error_entries ==
          {k \in ErrorKeys \cap DOMAIN results_arg :
             \A it \in BatchItems : KeyOfItem(it) # k}
    IN /\ summary.successful_subjects <=
            Cardinality({k \in DOMAIN results_arg \ error_entries :
                           AllSucceeded(results_arg[k])})
       /\ \A i \in errored : \A it \in RanOf(i) :
            /\ KeyOfItem(it) \in DOMAIN results_arg
            /\ KeyIsOwn(it) =>
                 results_arg[KeyOfItem(it)] = done_items[it].results


(***************************************************************************)
(* C38.  In parallel mode a work item runs its whole step sequence inside  *)
(* one worker and the sessions of a subject are processed one after        *)
(* another in the same worker: no two workers are on the same entry of the *)
(* subject list, and no two steps of the same subject are ever executing   *)
(* at the same time.                                                       *)
(***************************************************************************)
C38_OneStepPerSubject ==
  mode = "parallel" =>
    \A w \in Workers, v \in Workers :
      (w # v /\ worker[w].pc # "idle" /\ worker[v].pc # "idle") =>
        /\ worker[w].idx # worker[v].idx
        /\ (worker[w].pc = "in_step" /\ worker[v].pc = "in_step")
             => CurSubject(w) # CurSubject(v)


(***************************************************************************)
(* C39.  When topup comes right before eddy and the topup call returned    *)
(* success=True (also as "skipped, no dual phase encoding"), the eddy call *)
(* that follows does not fail for missing or undetectable TopUp products,  *)
(* so a subject without dual phase-encoding data is not stopped by the     *)
(* critical eddy step.                                                     *)
(***************************************************************************)
C39_EddyAfterTopup ==
  \A i \in DOMAIN calls :
    (/\ i + 1 \in DOMAIN calls
     /\ calls[i].run = calls[i + 1].run
     /\ calls[i].step = "topup"
     /\ calls[i].success
     /\ calls[i + 1].step = "eddy")
      => \/ calls[i + 1].success
         \/ /\ calls[i + 1].error_message[1] # "TopUp directory not found: "
            /\ calls[i + 1].error_message[1] #
                 "Could not determine phase encoding "

====
